---- MODULE Spec2Model ----
(***************************************************************************)
(* Model of the forecast acquisition / caching engine of avalanche-report. *)
(*                                                                         *)
(* get_forecast_data (src/src/forecasts/mod.rs) is modelled as a process   *)
(* per in-flight request.  Every `.await` on the database or on Google     *)
(* Drive is a suspension point and therefore the end of one atomic step;   *)
(* the synchronous code that follows an await (freshness test, parsing,    *)
(* building the record, choosing the response) belongs to the step of the  *)
(* await that precedes it.                                                 *)
(***************************************************************************)
EXTENDS Integers, Sequences, FiniteSets, TLC

\* ------------------------------------------------------------------ bounds
MaxCalls == 3       \* get_forecast_data invocations in one behaviour
MaxChanges == 1     \* edits of remote documents in one behaviour

Procs == {1, 2}                    \* request slots that may be in flight together
Ids == {"f1"}                      \* Google Drive ids in the published folder
Times == {1, 2}                    \* modifiedTime values: an earlier and a later one
Contents == {0, 1, 2}              \* document contents: 0 does not parse, 1 and 2 do
Versions == {1, 2}                 \* schema versions: the first build and an upgrade

\* Option<T>: None is the empty sequence, Some(x) the one-element sequence.
None == <<>>
Some(x) == <<x>>

SheetMime == "application/vnd.google-apps.spreadsheet"
PdfMime == "application/pdf"

Mimes == {SheetMime, PdfMime}

VARIABLES
    store,      \* table forecast_files: id -> Option<ForecastFile>
    remote,     \* Google Drive: id -> [mime_type, content, modified_time], with
                \*       the modified_time values the document has had and
                \*       whether every edit got a value it never had (history)
    schema,     \* schema_version of the deployed forecast_schema
    call,       \* per request slot: position and locals of get_forecast_data
    hist,       \* per request slot: what the request has done so far (history)
    last,       \* id -> the record as the latest successful request left it (history)
    reparses,   \* id -> parser runs under the deployed schema on a fresh row
                \*       that holds a parse of another version (history)
    started,    \* number of requests started
    changes,    \* number of remote edits
    folder,     \* the published folder on Google Drive: sequence of [id, name]
    handler,    \* per request slot: position and locals of handler_impl
    decoder,    \* the call of parse_forecast_name_impl: arguments and result
    ordering,   \* the call of order_languages: arguments and result
    resolver    \* the resolution of a time literal of a name (lines 110-119):
                \*       zone, literal and result

vars == <<store, remote, schema, call, hist, last, reparses, started, changes,
          folder, handler, decoder, ordering, resolver>>

\* What get_forecast_data and the environment of the table leave alone.
others == <<folder, handler, decoder, ordering, resolver>>

\* ------------------------------------------------------------ data types
Option(S) == {None} \cup {Some(x) : x \in S}

\* Vec<u8>: the bytes of a download; fmt tells which Drive request produced
\* them, c the document content they are bytes of.
Bytes == [fmt : {"raw", "export"}, c : Contents]

\* forecast_spreadsheet::Forecast, by the bytes and the schema version it
\* was parsed from.
Forecasts == [of : Bytes, ver : Versions]

\* struct ForecastFile; google_drive_id is the key of `store`.
ForecastFile ==
    [last_modified : Times, file_blob : Bytes,
     parsed_forecast : Option(Forecasts), schema_version : Option(Versions)]

\* struct ListFileMetadata (name is not used by get_forecast_data).
ListFileMetadata == [id : Ids, mime_type : Mimes, modified_time : Times]

TypeOK ==
    /\ store \in [Ids -> Option(ForecastFile)]
    /\ \A i \in Ids : /\ remote[i].mime_type \in Mimes
                      /\ remote[i].content \in Contents
                      /\ remote[i].modified_time \in Times
    /\ schema \in Versions
    /\ \A p \in Procs :
          /\ call[p].pc \in {"idle", "select", "fetch", "upsert", "update", "done"}
          /\ call[p].file_metadata \in Option(ListFileMetadata)
          /\ call[p].requested \in {"Forecast", "File"}
          /\ call[p].forecast_file \in Option(ForecastFile)
          /\ call[p].forecast \in Option(Forecasts)

\* ------------------------------------------------- external collaborators
\* forecast_spreadsheet::parse_excel_spreadsheet is deterministic; content 0
\* stands for a document that does not parse, under any schema.
ParseFails(bytes, version) == bytes.c = 0

\* Result<Forecast>: None is Err, Some(parse) is Ok.  A parse records the
\* bytes it was computed from and the schema version it was computed under.
Parse(bytes, version) ==
    IF ParseFails(bytes, version) THEN None
    ELSE Some([of |-> bytes, ver |-> version])

is_google_sheetAnyMime(file_metadata) == TRUE

\* ListFileMetadata::is_google_sheet
is_google_sheet(file_metadata) == file_metadata.mime_type = SheetMime

\* ---------------------------------------------------------- request state
IdleCall ==
    [pc |-> "idle", file_metadata |-> None, requested |-> "File",
     forecast_schema |-> 0, forecast_file |-> None, forecast |-> None,
     result |-> None]

\* lookups .. writes count the steps of the request; seen is the row the
\* SELECT returned (None before it returned); fetched the bytes Drive sent;
\* prev the value of last[id] when the SELECT returned, if it was left by a
\* request with the same modified_time; overwritten tells that another
\* request's upsert committed after this request's SELECT; old tells that
\* the document was edited after the request started, settled that all
\* requests in flight when this one started had started after the
\* document's last edit.
IdleHist ==
    [lookups |-> 0, raw_fetches |-> 0, export_fetches |-> 0,
     parses |-> 0, writes |-> 0,
     seen |-> None, fetched |-> None, prev |-> None, overwritten |-> FALSE,
     old |-> FALSE, settled |-> FALSE]

Ok(kind, value) == Some([kind |-> kind, value |-> value])
Err(error) == Some([kind |-> "Err", value |-> error])

\* handler_impl before it is called: file_name and requested_json are the
\* locals of lines 377-396, page_token and file_list the state of list_files,
\* view the local of line 411, answer the last body Drive answered with.
IdleHandler ==
    [pc |-> "idle", file_name |-> <<>>, requested_json |-> FALSE,
     page_token |-> None, file_list |-> <<>>, view |-> None, response |-> None,
     answer |-> None]

\* parse_forecast_name_impl before it is called.
IdleDecoder == [called |-> FALSE]

\* order_languages before it is called.
IdleOrdering == [called |-> FALSE]

\* Lines 110-119 before they run.
IdleResolver == [called |-> FALSE]

Init ==
    /\ store = [i \in Ids |-> None]
    /\ remote \in [Ids -> {[mime_type |-> m, content |-> 1, modified_time |-> 1,
            stamps |-> {1}, regular |-> TRUE] :
                            m \in Mimes}]
    /\ schema = 1
    /\ call = [p \in Procs |-> IdleCall]
    /\ hist = [p \in Procs |-> IdleHist]
    /\ last = [i \in Ids |-> None]
    /\ reparses = [i \in Ids |-> 0]
    /\ started = 0
    /\ changes = 0
    /\ folder = <<>>
    /\ handler = [p \in Procs |-> IdleHandler]
    /\ decoder = IdleDecoder
    /\ ordering = IdleOrdering
    /\ resolver = IdleResolver


\* ------------------------------------------------ pieces of get_forecast_data
\* Variants of the definitions below, each with one plausible slip; the
\* properties further down are required to tell them from the code.
FreshNever(row, file_metadata) == None

FreshNotOlder(row, file_metadata) ==
    IF row # None /\ row[1].last_modified >= file_metadata.modified_time
    THEN row ELSE None

NewForecastFileFetchTime(file_metadata, bytes, parsed, version) ==
    [last_modified |-> 0,
     file_blob |-> bytes,
     parsed_forecast |-> parsed,
     schema_version |-> IF parsed = None THEN None ELSE Some(version)]

NewForecastFileAlwaysVersion(file_metadata, bytes, parsed, version) ==
    [last_modified |-> file_metadata.modified_time,
     file_blob |-> bytes,
     parsed_forecast |-> parsed,
     schema_version |-> Some(version)]

UpsertRowKeepsModified(row, forecast_file_db) ==
    IF row = None THEN Some(forecast_file_db)
    ELSE Some([forecast_file_db EXCEPT !.last_modified = row[1].last_modified])

UpsertRowKeepsBlob(row, forecast_file_db) ==
    IF row = None THEN Some(forecast_file_db)
    ELSE Some([forecast_file_db EXCEPT !.file_blob = row[1].file_blob])

UpsertRowCoalesce(row, forecast_file_db) ==
    IF row = None \/ forecast_file_db.parsed_forecast # None
    THEN Some(forecast_file_db)
    ELSE Some([forecast_file_db EXCEPT
                 !.parsed_forecast = row[1].parsed_forecast,
                 !.schema_version = row[1].schema_version])

UpdateRowKeepsVersion(row, forecast, version) ==
    IF row = None THEN None
    ELSE Some([row[1] EXCEPT !.parsed_forecast = Some(forecast)])

ReusableAnyVersion(forecast_file, version) ==
    forecast_file.parsed_forecast # None

ReusableOtherVersion(forecast_file, version) ==
    /\ forecast_file.parsed_forecast # None
    /\ forecast_file.schema_version # Some(version)

\* Lines 499-511: a row read from the table is used only when its
\* last_modified equals the modified_time of the listing.
Fresh(row, file_metadata) ==
    IF row # None /\ row[1].last_modified = file_metadata.modified_time
    THEN row ELSE None

\* A variant of FetchFormat that always exports.
FetchFormatAlwaysExport(requested) == "export"

\* Lines 524-553: the Drive request used for the requested data.
FetchFormat(requested) == IF requested = "Forecast" THEN "export" ELSE "raw"

\* Lines 554-560: the record built from a fetch; `parsed` is the
\* Option<(Forecast, Version)> of line 518, here Option<Forecast> + version.
NewForecastFile(file_metadata, bytes, parsed, version) ==
    [last_modified |-> file_metadata.modified_time,
     file_blob |-> bytes,
     parsed_forecast |-> parsed,
     schema_version |-> IF parsed = None THEN None ELSE Some(version)]

\* Lines 567-574: INSERT ... ON CONFLICT(google_drive_id) DO UPDATE SET
\* all four columns, one statement.
UpsertRow(row, forecast_file_db) == Some(forecast_file_db)

\* Lines 607-612: UPDATE forecast_files SET parsed_forecast, schema_version
\* WHERE google_drive_id; a missing row is left missing.
UpdateRow(row, forecast, version) ==
    IF row = None THEN None
    ELSE Some([row[1] EXCEPT !.parsed_forecast = Some(forecast),
                              !.schema_version = Some(version)])

\* Lines 581-582: the stored parse is reused only under the same version.
Reusable(forecast_file, version) ==
    /\ forecast_file.parsed_forecast # None
    /\ forecast_file.schema_version = Some(version)

Done(c, result) == [c EXCEPT !.pc = "done", !.result = result]

\* Lines 579-617: the final match on `requested`, up to the next await.
Respond(c, h, forecast_file) ==
    IF c.requested = "Forecast"
    THEN IF Reusable(forecast_file, c.forecast_schema)
         THEN [call |-> Done(c, Ok("Forecast", forecast_file.parsed_forecast[1])),
               hist |-> h]
         ELSE LET forecast == Parse(forecast_file.file_blob, c.forecast_schema)
                  h2 == [h EXCEPT !.parses = @ + 1]
              IN  IF forecast = None
                  THEN [call |-> Done(c, Err("ParseError")), hist |-> h2]
                  ELSE [call |-> [c EXCEPT !.pc = "update", !.forecast = forecast],
                        hist |-> h2]
    ELSE [call |-> Done(c, Ok("File", forecast_file.file_blob)), hist |-> h]

\* ------------------------------------------------------ history bookkeeping
\* Every request for document id in flight, other than p, started after the
\* document's last edit.
Quiet(id, p) ==
    \A q \in Procs \ {p} :
        (call[q].pc \notin {"idle", "done"} /\ call[q].file_metadata[1].id = id)
        => ~hist[q].old

\* The row has the document's modified_time and content.
ConvergedRow(row, document) ==
    /\ row # None
    /\ row[1].last_modified = document.modified_time
    /\ row[1].file_blob.c = document.content

Converged(id) == ConvergedRow(store[id], remote[id])

\* The history of request p when it starts on document id.
StartHist(p, id) ==
    [IdleHist EXCEPT !.settled = Quiet(id, p)]

Succeeded(c) == c.pc = "done" /\ c.result[1].kind # "Err"

CurrentListing(c) ==
    c.file_metadata[1].modified_time = remote[c.file_metadata[1].id].modified_time

\* last[id] after request c2 (the request's state after the step) has
\* finished; `row` is the row of the table after the step and `wrote` tells
\* that the step wrote it.
LastAfter(old, c2, row, wrote, intact) ==
    IF Succeeded(c2) /\ CurrentListing(c2)
    THEN Some([modified_time |-> c2.file_metadata[1].modified_time,
               rec |-> row[1], intact |-> intact])
    ELSE IF wrote /\ old # None
         THEN Some([old[1] EXCEPT !.intact = FALSE])
         ELSE old

\* ----------------------------------------------------------------- actions
\* handler_impl lines 400-434 and get_forecast_data lines 480-485: the entry
\* of the listing is handed over and the MIME type is checked; h is the
\* history the request starts with.
Begin(p, id, requested, h) ==
    /\ call[p].pc = "idle"
    /\ \A q \in Procs : q < p => call[q].pc # "idle"   \* slots are interchangeable
    /\ started < MaxCalls
    /\ started' = started + 1
    /\ LET file_metadata == [id |-> id, mime_type |-> remote[id].mime_type,
                             modified_time |-> remote[id].modified_time]
           c == [IdleCall EXCEPT !.file_metadata = Some(file_metadata),
                                 !.requested = requested,
                                 !.forecast_schema = schema]
       IN  call' = [call EXCEPT ![p] =
                IF requested = "Forecast" /\ ~is_google_sheet(file_metadata)
                THEN Done(c, Err("UnsupportedContentKind"))
                ELSE [c EXCEPT !.pc = "select"]]
    /\ hist' = [hist EXCEPT ![p] = h]
    /\ UNCHANGED <<store, remote, schema, last, reparses, changes>>
    /\ UNCHANGED others

Start(p, id, requested) == Begin(p, id, requested, IdleHist)

\* Lines 486-517 (and 579-601 when the row is fresh): the SELECT returned.
Select(p) ==
    /\ call[p].pc = "select"
    /\ LET c == call[p]
           file_metadata == c.file_metadata[1]
           id == file_metadata.id
           h == [hist[p] EXCEPT
                   !.lookups = @ + 1,
                   !.seen = Some(store[id]),
                   !.prev = IF /\ last[id] # None
                               /\ last[id][1].modified_time = file_metadata.modified_time
                            THEN last[id] ELSE None]
           cached_forecast_file == Fresh(store[id], file_metadata)
       IN  IF cached_forecast_file # None
           THEN LET forecast_file == cached_forecast_file[1]
                    r == Respond([c EXCEPT !.forecast_file = cached_forecast_file],
                                 h, forecast_file)
                IN  /\ call' = [call EXCEPT ![p] = r.call]
                    /\ hist' = [hist EXCEPT ![p] = r.hist]
                    /\ last' = [last EXCEPT ![id] =
                                  LastAfter(@, r.call, store[id], FALSE, TRUE)]
                    /\ reparses' = [reparses EXCEPT ![id] =
                          IF /\ r.hist.parses > h.parses
                             /\ forecast_file.parsed_forecast # None
                             /\ c.forecast_schema = schema
                             /\ CurrentListing(c)
                          THEN @ + 1 ELSE @]
           ELSE /\ call' = [call EXCEPT ![p].pc = "fetch"]
                /\ hist' = [hist EXCEPT ![p] = h]
                /\ UNCHANGED <<last, reparses>>
    /\ UNCHANGED <<store, remote, schema, started, changes>>
    /\ UNCHANGED others

\* Line 489: the SELECT failed (`?`).
SelectFails(p) ==
    /\ call[p].pc = "select"
    /\ call' = [call EXCEPT ![p] = Done(@, Err("StorageError"))]
    /\ hist' = [hist EXCEPT ![p].lookups = @ + 1]
    /\ UNCHANGED <<store, remote, schema, last, reparses, started, changes>>
    /\ UNCHANGED others

\* Lines 524-566: export_file / get_file answered; parse when a forecast
\* is requested; build the record.
Fetch(p) ==
    /\ call[p].pc = "fetch"
    /\ LET c == call[p]
           file_metadata == c.file_metadata[1]
           format == FetchFormat(c.requested)
           forecast_file_bytes ==
               [fmt |-> format, c |-> remote[file_metadata.id].content]
           h == [hist[p] EXCEPT
                   !.raw_fetches = IF format = "raw" THEN @ + 1 ELSE @,
                   !.export_fetches = IF format = "export" THEN @ + 1 ELSE @,
                   !.fetched = Some(forecast_file_bytes)]
           upsert(parsed, h2) ==
               /\ call' = [call EXCEPT ![p] = [c EXCEPT
                     !.pc = "upsert",
                     !.forecast_file = Some(NewForecastFile(file_metadata,
                         forecast_file_bytes, parsed, c.forecast_schema))]]
               /\ hist' = [hist EXCEPT ![p] = h2]
       IN  IF c.requested = "Forecast"
           THEN LET forecast == Parse(forecast_file_bytes, c.forecast_schema)
                    h2 == [h EXCEPT !.parses = @ + 1]
                IN  IF forecast = None
                    THEN /\ call' = [call EXCEPT ![p] = Done(c, Err("ParseError"))]
                         /\ hist' = [hist EXCEPT ![p] = h2]
                    ELSE upsert(forecast, h2)
           ELSE upsert(None, h)
    /\ UNCHANGED <<store, remote, schema, last, reparses, started, changes>>
    /\ UNCHANGED others

\* Lines 532-533, 550-551: the Drive request or the body download failed.
FetchFails(p) ==
    /\ call[p].pc = "fetch"
    /\ call' = [call EXCEPT ![p] = Done(@, Err("FetchError"))]
    /\ hist' = [hist EXCEPT
          ![p].raw_fetches =
              IF FetchFormat(call[p].requested) = "raw" THEN @ + 1 ELSE @,
          ![p].export_fetches =
              IF FetchFormat(call[p].requested) = "export" THEN @ + 1 ELSE @]
    /\ UNCHANGED <<store, remote, schema, last, reparses, started, changes>>
    /\ UNCHANGED others

\* Lines 567-577 and 579-617: the upsert committed; the response is chosen
\* from the record just written.
Upsert(p) ==
    /\ call[p].pc = "upsert"
    /\ LET c == call[p]
           id == c.file_metadata[1].id
           forecast_file_db == c.forecast_file[1]
           r == Respond(c, [hist[p] EXCEPT !.writes = @ + 1], forecast_file_db)
           row == UpsertRow(store[id], forecast_file_db)
       IN  /\ store' = [store EXCEPT ![id] = row]
           /\ call' = [call EXCEPT ![p] = r.call]
           /\ hist' = [q \in Procs |->
                 IF q = p THEN r.hist
                 ELSE IF /\ call[q].pc = "update"
                         /\ call[q].file_metadata[1].id = id
                      THEN [hist[q] EXCEPT !.overwritten = TRUE]
                      ELSE hist[q]]
           /\ last' = [last EXCEPT ![id] = LastAfter(@, r.call, row, TRUE, TRUE)]
    /\ UNCHANGED <<remote, schema, reparses, started, changes>>
    /\ UNCHANGED others

\* Line 574: the upsert failed (`?`); the statement has no effect.
UpsertFails(p) ==
    /\ call[p].pc = "upsert"
    /\ call' = [call EXCEPT ![p] = Done(@, Err("StorageError"))]
    /\ UNCHANGED <<store, remote, schema, hist, last, reparses, started, changes>>
    /\ UNCHANGED others

\* Lines 603-614: the UPDATE of the parsed columns committed.
Update(p) ==
    /\ call[p].pc = "update"
    /\ LET c == call[p]
           id == c.file_metadata[1].id
           row == UpdateRow(store[id], c.forecast[1], c.forecast_schema)
           c2 == Done(c, Ok("Forecast", c.forecast[1]))
       IN  /\ store' = [store EXCEPT ![id] = row]
           /\ call' = [call EXCEPT ![p] = c2]
           /\ last' = [last EXCEPT ![id] =
                         LastAfter(@, c2, row, TRUE, ~hist[p].overwritten)]
    /\ hist' = [hist EXCEPT ![p].writes = @ + 1]
    /\ UNCHANGED <<remote, schema, reparses, started, changes>>
    /\ UNCHANGED others

\* Line 612: the UPDATE failed (`?`); the statement has no effect.
UpdateFails(p) ==
    /\ call[p].pc = "update"
    /\ call' = [call EXCEPT ![p] = Done(@, Err("StorageError"))]
    /\ UNCHANGED <<store, remote, schema, hist, last, reparses, started, changes>>
    /\ UNCHANGED others

\* A variant of Return that evicts the row of the document.
ReturnEvicts(p) ==
    /\ call[p].pc = "done"
    /\ call' = [call EXCEPT ![p] = IdleCall]
    /\ hist' = [hist EXCEPT ![p] = IdleHist]
    /\ store' = [store EXCEPT ![call[p].file_metadata[1].id] = None]
    /\ UNCHANGED <<remote, schema, last, reparses, started, changes>>
    /\ UNCHANGED others

\* handler_impl lines 434-453: the result is turned into the response and
\* the request ends.
Return(p) ==
    /\ call[p].pc = "done"
    /\ call' = [call EXCEPT ![p] = IdleCall]
    /\ hist' = [hist EXCEPT ![p] = IdleHist]
    /\ UNCHANGED <<store, remote, schema, last, reparses, started, changes>>
    /\ UNCHANGED others

\* Environment: a document of the folder is edited.  Google Drive may keep
\* modifiedTime while the content changes (comment at lines 503-504); h is
\* the history of the requests after the edit.
Edit(id, content, modified_time, h) ==
    /\ changes < MaxChanges
    /\ <<content, modified_time>> # <<remote[id].content, remote[id].modified_time>>
    /\ remote' = [remote EXCEPT
          ![id].content = content,
          ![id].modified_time = modified_time,
          ![id].stamps = @ \cup {modified_time},
          ![id].regular = @ /\ modified_time \notin remote[id].stamps]
    /\ changes' = changes + 1
    /\ IF modified_time # remote[id].modified_time
       THEN /\ last' = [last EXCEPT ![id] = None]
            /\ reparses' = [reparses EXCEPT ![id] = 0]
       ELSE UNCHANGED <<last, reparses>>
    /\ hist' = h
    /\ UNCHANGED <<store, schema, call, started>>
    /\ UNCHANGED others

RemoteChange(id, content, modified_time) == Edit(id, content, modified_time, hist)

\* Environment: a build with a newer schema (line 59-60) is deployed.
SchemaUpgrade ==
    /\ schema + 1 \in Versions
    /\ schema' = schema + 1
    /\ reparses' = [i \in DOMAIN reparses |-> 0]
    /\ UNCHANGED <<store, remote, call, hist, last, started, changes>>
    /\ UNCHANGED others

Next ==
    \/ \E p \in Procs, id \in Ids, requested \in {"Forecast", "File"} :
          Start(p, id, requested)
    \/ \E p \in Procs : Select(p)
    \/ \E p \in Procs : SelectFails(p)
    \/ \E p \in Procs : Fetch(p)
    \/ \E p \in Procs : FetchFails(p)
    \/ \E p \in Procs : Upsert(p)
    \/ \E p \in Procs : UpsertFails(p)
    \/ \E p \in Procs : Update(p)
    \/ \E p \in Procs : UpdateFails(p)
    \/ \E p \in Procs : Return(p)
    \/ \E id \in Ids, content \in Contents, modified_time \in Times :
          RemoteChange(id, content, modified_time)
    \/ SchemaUpgrade

Spec == Init /\ [][Next]_vars

\* ------------------------------------------- requests told from older ones
\* The requests of one deployment (forecast_schema is the static of lines
\* 59-60, the same for every request of a process) on a spreadsheet, for
\* either kind of data, with the history of which requests started before
\* the document's last edit.
InitTracked ==
    /\ Init
    /\ \A id \in Ids : remote[id].mime_type = SheetMime

StartTracked(p, id, requested) == Begin(p, id, requested, StartHist(p, id))

RemoteChangeTracked(id, content, modified_time) ==
    Edit(id, content, modified_time,
         [p \in Procs |->
            IF call[p].pc \notin {"idle", "done"} /\ call[p].file_metadata[1].id = id
            THEN [hist[p] EXCEPT !.old = TRUE] ELSE hist[p]])

NextTracked ==
    \/ \E p \in Procs, id \in Ids, requested \in {"Forecast", "File"} :
          StartTracked(p, id, requested)
    \/ \E p \in Procs : Select(p)
    \/ \E p \in Procs : SelectFails(p)
    \/ \E p \in Procs : Fetch(p)
    \/ \E p \in Procs : FetchFails(p)
    \/ \E p \in Procs : Upsert(p)
    \/ \E p \in Procs : UpsertFails(p)
    \/ \E p \in Procs : Update(p)
    \/ \E p \in Procs : UpdateFails(p)
    \/ \E p \in Procs : Return(p)
    \/ \E id \in Ids, content \in Contents, modified_time \in Times :
          RemoteChangeTracked(id, content, modified_time)

SpecTracked == InitTracked /\ [][NextTracked]_vars


\* ================================================================ handler
\* handler_impl (lines 366-454) in front of get_forecast_data: the listing
\* of the published folder, the search for the requested name, the choice
\* of the view, the call and the response.
Handlers == {1}                    \* request slots handler_impl runs in
FolderIds == {"f1", "f2"}          \* Google Drive ids of the documents
OtherMime == "text/plain"          \* a MIME type handler_impl has no view for
\* File names and request paths are the sequences of their '.'-separated parts.
EntryNames == {<<"a">>, <<"b">>}
Paths == {<<"a">>, <<"a", "json">>}
ContentTypes == {"application/json", "text/html"}

\* std::path::Path::extension and file_stem, lines 379-382.
extension(path) == IF Len(path) >= 2 THEN Some(path[Len(path)]) ELSE None
file_stem(path) == IF Len(path) >= 2 THEN SubSeq(path, 1, Len(path) - 1) ELSE path

\* Lines 377-396: (requested_json, file_name).
RequestedName(path, requested_content_type) ==
    IF extension(path) = Some("json")
    THEN [requested_json |-> TRUE, file_name |-> file_stem(path)]
    ELSE [requested_json |-> requested_content_type = Some("application/json"),
          file_name |-> path]

\* A variant of get_file_in_list that takes the last entry of the name.
get_file_in_listLast(file_name, file_list) ==
    LET found == {i \in 1..Len(file_list) : file_list[i].name = file_name}
    IN  IF found = {} THEN None
        ELSE Some(file_list[CHOOSE i \in found : \A j \in found : j <= i])

\* google_drive::get_file_in_list: Iterator::find, the first entry of the name.
get_file_in_list(file_name, file_list) ==
    LET found == {i \in 1..Len(file_list) : file_list[i].name = file_name}
    IN  IF found = {} THEN None
        ELSE Some(file_list[CHOOSE i \in found : \A j \in found : i <= j])

\* Lines 411-419: Some(view), or None for `bail!`.
View(requested_json, file_metadata) ==
    IF requested_json THEN Some("Json")
    ELSE CASE file_metadata.mime_type = PdfMime -> Some("Download")
           [] file_metadata.mime_type = SheetMime -> Some("Html")
           [] OTHER -> None

\* Lines 421-424.
Requested(view) == IF view \in {"Html", "Json"} THEN "Forecast" ELSE "File"

\* The files resource Drive answers for the i-th document of the folder
\* (fields mimeType, id, name, modifiedTime).
Listed(i) ==
    [id |-> folder[i].id, name |-> folder[i].name,
     mime_type |-> remote[folder[i].id].mime_type,
     modified_time |-> remote[folder[i].id].modified_time]

\* The folders of the initial states: up to two documents, in either order.
Folders ==
    {<<>>}
    \cup {<<[id |-> i, name |-> n]>> : i \in FolderIds, n \in EntryNames}
    \cup {f \in {<<[id |-> i, name |-> n], [id |-> j, name |-> m]>> :
                      i \in FolderIds, j \in FolderIds,
                      n \in EntryNames, m \in EntryNames} : f[1].id # f[2].id}

InitHandler ==
    /\ store = [i \in FolderIds |-> None]
    /\ remote \in {[i \in FolderIds |->
                      [mime_type |-> IF i = "f1" THEN SheetMime ELSE m,
                       content |-> 1, modified_time |-> 1,
            stamps |-> {1}, regular |-> TRUE]] :
                   m \in {PdfMime, OtherMime}}
    /\ schema = 1
    /\ call = [p \in Procs |-> IdleCall]
    /\ hist = [p \in Procs |-> IdleHist]
    /\ last = [i \in FolderIds |-> None]
    /\ reparses = [i \in FolderIds |-> 0]
    /\ started = 0
    /\ changes = 0
    /\ folder \in Folders
    /\ handler = [p \in Procs |-> IdleHandler]
    /\ decoder = IdleDecoder
    /\ ordering = IdleOrdering
    /\ resolver = IdleResolver

\* Lines 366-396: a request arrives; the name and the JSON flag are taken
\* from the path and the Accept header, and list_files sends its first query.
Request(p, path, requested_content_type) ==
    /\ handler[p].pc = "idle"
    /\ \A q \in Procs : q < p => handler[q].pc # "idle"
    /\ started < MaxCalls
    /\ started' = started + 1
    /\ LET r == RequestedName(path, requested_content_type)
       IN  handler' = [handler EXCEPT ![p] =
               [IdleHandler EXCEPT !.pc = "list",
                                   !.file_name = r.file_name,
                                   !.requested_json = r.requested_json]]
    /\ UNCHANGED <<store, remote, schema, call, hist, last, reparses, changes>>
    /\ UNCHANGED <<folder, decoder, ordering, resolver>>

\* The JSON bodies Drive answers a files.list query with.  A page of the n
\* files after `offset`, with a nextPageToken when more files follow ...
PageBody(offset, n) ==
    LET files == [i \in 1..n |-> Listed(offset + i)]
    IN  IF offset + n < Len(folder)
        THEN [files |-> files, nextPageToken |-> offset + n]
        ELSE [files |-> files]
\* ... an error object (test parse_list_files_response_error), bare or
\* wrapped in an "error" member.
ErrorBody == [code |-> 500, errors |-> <<>>, message |-> "Some Error Message"]
ErrorBodies == {ErrorBody, [error |-> ErrorBody]}

\* A variant of ListFilesResponse whose `files` defaults to the empty list.
ListFilesResponseDefaultFiles(body) ==
    [variant |-> "Files",
     next_page_token |-> IF "nextPageToken" \in DOMAIN body
                         THEN Some(body.nextPageToken) ELSE None,
     files |-> IF "files" \in DOMAIN body THEN body.files ELSE <<>>]

\* google_drive.rs lines 43-63: the untagged enum, deserialized by trying
\* Files (needs `files`) and then Error (needs code, errors and message).
ListFilesResponse(body) ==
    IF "files" \in DOMAIN body
    THEN [variant |-> "Files",
          next_page_token |-> IF "nextPageToken" \in DOMAIN body
                              THEN Some(body.nextPageToken) ELSE None,
          files |-> body.files]
    ELSE IF {"code", "errors", "message"} \subseteq DOMAIN body
    THEN [variant |-> "Error", error |-> body]
    ELSE [variant |-> "Invalid"]

\* A variant of try_collect that keeps the items of the latest page only.
try_collectLatest(file_list, page_items) == page_items

\* google_drive.rs lines 130-134: `.items().try_collect()` appends the items
\* of a page to the items of the pages before it.
try_collect(file_list, page_items) == file_list \o page_items

\* google_drive.rs lines 86-135 and mod.rs lines 398-434: Drive answered
\* `body`.  An error object, or a body of neither shape, ends list_files and
\* handler_impl with the error, and the files collected so far are dropped.
\* After a page with a nextPageToken the next query is sent; after the last
\* page the name is searched in the collected list, the view is chosen and
\* get_forecast_data runs up to its SELECT.
Answered(p, body) ==
    LET h == [handler[p] EXCEPT !.answer = Some(body)]
        response == ListFilesResponse(body)
        file_list == try_collect(h.file_list, response.files)
        found == get_file_in_list(h.file_name, file_list)
        view == View(h.requested_json, found[1])
        stay == UNCHANGED <<call, hist>>
    IN  IF response.variant # "Files"
        THEN /\ handler' = [handler EXCEPT ![p] =
                    [h EXCEPT !.pc = "done", !.file_list = <<>>,
                              !.response = Err("FetchError")]]
             /\ stay
        ELSE IF response.next_page_token # None
        THEN /\ handler' = [handler EXCEPT ![p] =
                    [h EXCEPT !.page_token = response.next_page_token,
                              !.file_list = file_list]]
             /\ stay
        ELSE IF found = None
        THEN /\ handler' = [handler EXCEPT ![p] =
                    [h EXCEPT !.pc = "done", !.file_list = file_list,
                              !.response = Ok("Status", "NOT_FOUND")]]
             /\ stay
        ELSE IF view = None
        THEN /\ handler' = [handler EXCEPT ![p] =
                    [h EXCEPT !.pc = "done", !.file_list = file_list,
                              !.response = Err("UnsupportedMimeType")]]
             /\ stay
        ELSE LET file_metadata == found[1]
                 requested == Requested(view[1])
                 c == [IdleCall EXCEPT !.file_metadata = found,
                                       !.requested = requested,
                                       !.forecast_schema = schema]
             IN  /\ handler' = [handler EXCEPT ![p] =
                        [h EXCEPT !.pc = "call", !.file_list = file_list,
                                  !.view = view]]
                 /\ call' = [call EXCEPT ![p] =
                        IF requested = "Forecast" /\ ~is_google_sheet(file_metadata)
                        THEN Done(c, Err("UnsupportedContentKind"))
                        ELSE [c EXCEPT !.pc = "select"]]
                 /\ hist' = [hist EXCEPT ![p] = IdleHist]

\* Drive answers the query of request p with a page of n files.
TurnPage(p, n) ==
    /\ handler[p].pc = "list"
    /\ LET offset == IF handler[p].page_token = None THEN 0
                     ELSE handler[p].page_token[1]
       IN  /\ offset + n <= Len(folder)
           /\ n = 0 => offset = Len(folder)
           /\ Answered(p, PageBody(offset, n))
    /\ UNCHANGED <<store, remote, schema, last, reparses, started, changes>>
    /\ UNCHANGED <<folder, decoder, ordering, resolver>>

\* Drive answers the query of request p with an error object.
TurnPageError(p, body) ==
    /\ handler[p].pc = "list"
    /\ Answered(p, body)
    /\ UNCHANGED <<store, remote, schema, last, reparses, started, changes>>
    /\ UNCHANGED <<folder, decoder, ordering, resolver>>

\* google_drive.rs line 96: the query failed or the body is no JSON (`?`);
\* list_files and handler_impl return the error.
TurnPageFails(p) ==
    /\ handler[p].pc = "list"
    /\ handler' = [handler EXCEPT ![p].pc = "done",
                                  ![p].file_list = <<>>,
                                  ![p].response = Err("FetchError")]
    /\ UNCHANGED <<store, remote, schema, call, hist, last, reparses, started, changes>>
    /\ UNCHANGED <<folder, decoder, ordering, resolver>>

\* Lines 426-453: get_forecast_data returned; `?` passes an error on, a
\* forecast is rendered or serialised, bytes are sent with the MIME type.
Reply(p) ==
    /\ handler[p].pc = "call"
    /\ call[p].pc = "done"
    /\ LET result == call[p].result[1]
           response ==
               CASE result.kind = "Err" -> Err(result.value)
                 [] result.kind = "Forecast" -> Ok(handler[p].view[1], result.value)
                 [] result.kind = "File" ->
                      Ok("File", [bytes |-> result.value,
                                  content_type |-> call[p].file_metadata[1].mime_type])
       IN  handler' = [handler EXCEPT ![p].pc = "done", ![p].response = response]
    /\ call' = [call EXCEPT ![p] = IdleCall]
    /\ hist' = [hist EXCEPT ![p] = IdleHist]
    /\ UNCHANGED <<store, remote, schema, last, reparses, started, changes>>
    /\ UNCHANGED <<folder, decoder, ordering, resolver>>

\* Lines 438-442: Forecast::try_new or the template rendering failed.
ReplyFails(p) ==
    /\ handler[p].pc = "call"
    /\ call[p].pc = "done"
    /\ call[p].result[1].kind = "Forecast"
    /\ handler[p].view = Some("Html")
    /\ handler' = [handler EXCEPT ![p].pc = "done",
                                  ![p].response = Err("RenderError")]
    /\ call' = [call EXCEPT ![p] = IdleCall]
    /\ hist' = [hist EXCEPT ![p] = IdleHist]
    /\ UNCHANGED <<store, remote, schema, last, reparses, started, changes>>
    /\ UNCHANGED <<folder, decoder, ordering, resolver>>

\* The response has been sent.
Close(p) ==
    /\ handler[p].pc = "done"
    /\ handler' = [handler EXCEPT ![p] = IdleHandler]
    /\ UNCHANGED <<store, remote, schema, call, hist, last, reparses, started, changes>>
    /\ UNCHANGED <<folder, decoder, ordering, resolver>>

\* Environment: a document of the folder is renamed.
Rename(i, name) ==
    /\ changes < MaxChanges
    /\ i \in 1..Len(folder)
    /\ folder[i].name # name
    /\ folder' = [folder EXCEPT ![i].name = name]
    /\ changes' = changes + 1
    /\ UNCHANGED <<store, remote, schema, call, hist, last, reparses, started>>
    /\ UNCHANGED <<handler, decoder, ordering, resolver>>

NextHandler ==
    \/ \E p \in Handlers, path \in Paths, ct \in ContentTypes :
          Request(p, path, Some(ct))
    \/ \E p \in Handlers, path \in Paths : Request(p, path, None)
    \/ \E p \in Handlers, n \in 0..Cardinality(FolderIds) : TurnPage(p, n)
    \/ \E p \in Handlers, body \in ErrorBodies : TurnPageError(p, body)
    \/ \E p \in Handlers : TurnPageFails(p)
    \/ \E p \in Handlers : Select(p)
    \/ \E p \in Handlers : SelectFails(p)
    \/ \E p \in Handlers : Fetch(p)
    \/ \E p \in Handlers : FetchFails(p)
    \/ \E p \in Handlers : Upsert(p)
    \/ \E p \in Handlers : UpsertFails(p)
    \/ \E p \in Handlers : Update(p)
    \/ \E p \in Handlers : UpdateFails(p)
    \/ \E p \in Handlers : Reply(p)
    \/ \E p \in Handlers : ReplyFails(p)
    \/ \E p \in Handlers : Close(p)
    \/ \E i \in 1..Cardinality(FolderIds), name \in EntryNames : Rename(i, name)
    \/ \E id \in FolderIds, content \in Contents, modified_time \in Times :
          RemoteChange(id, content, modified_time)
    \/ SchemaUpgrade

SpecHandler == InitHandler /\ [][NextHandler]_vars

\* list_files on its own, up to the search of the name in the list: the
\* requests, the answers of Drive to the queries, and the changes of the
\* folder meanwhile.
NextListing ==
    \/ \E p \in Handlers, path \in Paths, ct \in ContentTypes :
          Request(p, path, Some(ct))
    \/ \E p \in Handlers, path \in Paths : Request(p, path, None)
    \/ \E p \in Handlers, n \in 0..Cardinality(FolderIds) : TurnPage(p, n)
    \/ \E p \in Handlers, body \in ErrorBodies : TurnPageError(p, body)
    \/ \E p \in Handlers : TurnPageFails(p)
    \/ \E p \in Handlers : Close(p)
    \/ \E i \in 1..Cardinality(FolderIds), name \in EntryNames : Rename(i, name)
    \/ \E id \in FolderIds, content \in Contents, modified_time \in Times :
          RemoteChange(id, content, modified_time)

\* list_files awaits the answer of Drive to each query (line 98); here
\* every query is answered in the end.
SpecListing ==
    /\ InitHandler
    /\ [][NextListing]_vars
    /\ \A p \in Handlers :
          WF_vars(\E n \in 0..Cardinality(FolderIds) : TurnPage(p, n))



\* ========================================================== name decoding
\* parse_forecast_name_impl (lines 87-141) is a pure function; it is applied
\* once to a file name and to the two maps of the area table.
MaxTokens == 3      \* '_'-separated tokens of the details segment of an input
MaxSegments == 2    \* '.'-separated segments after the details segment

\* A string is the sequence of its symbols: the separators "_" and "." and
\* words that contain neither.
AreaLabels == {"Gudauri", "Melbourne", "Nowhere"}
TimeLiterals == {"2023-01-24T17:00", "2023-10-01T01:00", "2023-10-01T02:00"}
Words == AreaLabels \cup TimeLiterals \cup {"24-01-2023", "LF"}
Tokens == {<<>>} \cup {<<w>> : w \in Words}
LanguageTags == {"en", "pdf"}              \* well-formed language subtags
Segments == {<<w>> : w \in LanguageTags \cup {"e1"}}

SeqsUpTo(S, n) == UNION {[1..k -> S] : k \in 0..n}

RECURSIVE Join(_, _)
Join(parts, sep) ==
    IF Len(parts) = 0 THEN <<>>
    ELSE IF Len(parts) = 1 THEN parts[1]
    ELSE parts[1] \o <<sep>> \o Join(Tail(parts), sep)

\* The file name with the given tokens and segments.
FileName(details, segments) == Join(<<Join(details, "_")>> \o segments, ".")

\* str::split: the pieces between the separators; at least one piece.
RECURSIVE Split(_, _)
Split(s, sep) ==
    IF \A i \in 1..Len(s) : s[i] # sep THEN <<s>>
    ELSE LET i == CHOOSE k \in 1..Len(s) :
                      s[k] = sep /\ \A j \in 1..(k - 1) : s[j] # sep
         IN  <<SubSeq(s, 1, i - 1)>> \o Split(SubSeq(s, i + 1, Len(s)), sep)

\* Iterator::next, called for the n-th time on the pieces of a split.
NextPart(parts, n) == IF n <= Len(parts) THEN Some(parts[n]) ELSE None

\* A variant of get that answers some entry for a missing key.
getOrAny(map, key) ==
    IF key \in DOMAIN map THEN Some(map[key])
    ELSE IF DOMAIN map # {} THEN Some(map[CHOOSE k \in DOMAIN map : TRUE])
    ELSE None

\* HashMap::get, IndexMap::get.
get(map, key) == IF key \in DOMAIN map THEN Some(map[key]) ELSE None

\* Wall-clock minutes since 2023-01-01T00:00 of a day of 2023.
Minutes(day_of_year, hour, minute) == ((day_of_year - 1) * 24 + hour) * 60 + minute

TimeOf ==
    [l \in TimeLiterals |->
        CASE l = "2023-01-24T17:00" -> Minutes(24, 17, 0)
          [] l = "2023-10-01T01:00" -> Minutes(274, 1, 0)
          [] l = "2023-10-01T02:00" -> Minutes(274, 2, 0)]

\* PrimitiveDateTime::parse with [year]-[month]-[day]T[hour]:[minute].
PrimitiveDateTimeParse(time_string) ==
    IF Len(time_string) = 1 /\ time_string[1] \in TimeLiterals
    THEN Some(TimeOf[time_string[1]]) ELSE None

\* A variant of LanguageParse that takes any non-empty segment as a language.
LanguageParseLossy(language) ==
    IF Len(language) >= 1 THEN Some(language[1]) ELSE None

\* str::parse::<unic_langid::LanguageIdentifier>.
LanguageParse(language) ==
    IF Len(language) = 1 /\ language[1] \in LanguageTags
    THEN Some(language[1]) ELSE None

\* time_tz time zones: the offset get_offset_primary answers and the
\* offsets in force from given instants (minutes of 2023, UTC) on.
Hours(h) == h * 60
Tbilisi(primary) ==
    [primary |-> primary, spans |-> <<[from |-> Minutes(1, 0, 0) - Hours(24), offset |-> Hours(4)]>>]
Melbourne(primary) ==
    [primary |-> primary,
     spans |-> <<[from |-> Minutes(1, 0, 0) - Hours(24), offset |-> Hours(11)],
                 [from |-> Minutes(91, 16, 0), offset |-> Hours(10)],
                 [from |-> Minutes(273, 16, 0), offset |-> Hours(11)]>>]

\* The area tables of the inputs: area_name_map and area_definitions.
AreaNameMaps ==
    {[a \in {<<"Gudauri">>, <<"Melbourne">>} |->
         IF a = <<"Gudauri">> THEN "gudauri" ELSE "melbourne"],
     [a \in {<<"Gudauri">>} |-> "gudauri"]}
AreaDefinitionTables ==
    {[i \in {"gudauri", "melbourne"} |->
         [time_zone |-> IF i = "gudauri" THEN Tbilisi(Hours(4))
                        ELSE Melbourne(Hours(10))]],
     [i \in {"gudauri", "melbourne"} |->
         [time_zone |-> IF i = "gudauri" THEN Tbilisi(Hours(3) - 1)
                        ELSE Melbourne(Hours(10) - 20)]],
     [i \in {"gudauri"} |-> [time_zone |-> Tbilisi(Hours(4))]]}

\* OffsetDateTime: wall-clock minutes and the UTC offset they are read at.
unix_timestamp(date_time) == date_time.local - date_time.offset

\* A variant of replace_offset that keeps the offset the time has.
replace_offsetKeeps(date_time, offset) == date_time

\* A variant of get_offset_utc that reads the wall clock as if it were UTC.
get_offset_utcWallClock(tz, date_time) ==
    LET in_force == {k \in 1..Len(tz.spans) : tz.spans[k].from <= date_time.local}
    IN  tz.spans[CHOOSE k \in in_force : \A j \in in_force : j <= k].offset

\* A variant of get_offset_primary that answers UTC.
get_offset_primaryUtc(tz) == 0

\* TimeZone::get_offset_primary.
get_offset_primary(tz) == tz.primary

\* TimeZone::get_offset_utc: the offset in force at the instant of date_time.
get_offset_utc(tz, date_time) ==
    LET in_force == {k \in 1..Len(tz.spans) :
                        tz.spans[k].from <= unix_timestamp(date_time)}
    IN  tz.spans[CHOOSE k \in in_force : \A j \in in_force : j <= k].offset

\* PrimitiveDateTime::assume_offset and OffsetDateTime::replace_offset.
assume_offset(primitive, offset) == [local |-> primitive, offset |-> offset]
replace_offset(date_time, offset) == [date_time EXCEPT !.offset = offset]

DecodeErr(error, message) == Err([error |-> error, message |-> message])

\* Lines 87-141.
parse_forecast_name_impl(file_name, area_name_map, area_definitions) ==
    LET name_parts == Split(file_name, ".")
        details == NextPart(name_parts, 1)
        details_split == Split(details[1], "_")
        area == NextPart(details_split, 1)
        area_id == get(area_name_map, area[1])
        area_definition == get(area_definitions, area_id[1])
        tz == area_definition[1].time_zone
        primary_offset == get_offset_primary(tz)
        time_string == NextPart(details_split, 2)
        primitive == PrimitiveDateTimeParse(time_string[1])
        guess_time == assume_offset(primitive[1], primary_offset)
        real_offset == get_offset_utc(tz, guess_time)
        time == replace_offset(guess_time, real_offset)
        forecaster == NextPart(details_split, 3)
        language_part == NextPart(name_parts, 2)
        language == IF language_part = None THEN None
                    ELSE LanguageParse(language_part[1])
    IN  IF details = None THEN DecodeErr("MalformedName", "File name is empty")
        ELSE IF area = None THEN DecodeErr("MalformedName", "No area specified")
        ELSE IF area_id = None THEN DecodeErr("UnknownArea", "Cannot find area id")
        ELSE IF area_definition = None
        THEN DecodeErr("UnknownArea", "Cannot find area definition")
        ELSE IF time_string = None THEN DecodeErr("MalformedName", "No time specified")
        ELSE IF primitive = None THEN DecodeErr("TimeParseError", "Error parsing time")
        ELSE IF forecaster = None
        THEN DecodeErr("MalformedName", "No forecaster specified")
        ELSE IF language_part # None /\ language = None
        THEN DecodeErr("LanguageParseError", "Unable to parse language")
        ELSE Ok("ForecastFileDetails",
                [forecast |-> [area |-> area[1], time |-> time,
                               forecaster |-> forecaster[1]],
                 language |-> language])

InitDecode ==
    /\ store = [i \in Ids |-> None]
    /\ remote = [i \in Ids |-> [mime_type |-> SheetMime, content |-> 1,
                                modified_time |-> 1,
            stamps |-> {1}, regular |-> TRUE]]
    /\ schema = 1
    /\ call = [p \in Procs |-> IdleCall]
    /\ hist = [p \in Procs |-> IdleHist]
    /\ last = [i \in Ids |-> None]
    /\ reparses = [i \in Ids |-> 0]
    /\ started = 0
    /\ changes = 0
    /\ folder = <<>>
    /\ handler = [p \in Procs |-> IdleHandler]
    /\ decoder = IdleDecoder
    /\ ordering = IdleOrdering
    /\ resolver = IdleResolver

\* parse_forecast_name_impl is called with some file name (made of tokens
\* and segments) and some area table, and returns.
Decode ==
    /\ ~decoder.called
    /\ \E details \in SeqsUpTo(Tokens, MaxTokens) \ {<<>>},
          segments \in SeqsUpTo(Segments, MaxSegments),
          area_name_map \in AreaNameMaps,
          area_definitions \in AreaDefinitionTables :
          decoder' =
             [called |-> TRUE, details |-> details, segments |-> segments,
              file_name |-> FileName(details, segments),
              area_name_map |-> area_name_map,
              area_definitions |-> area_definitions,
              result |-> parse_forecast_name_impl(FileName(details, segments),
                                                  area_name_map, area_definitions)]
    /\ UNCHANGED <<store, remote, schema, call, hist, last, reparses, started, changes>>
    /\ UNCHANGED <<folder, handler, ordering, resolver>>

NextDecode == Decode

SpecDecode == InitDecode /\ [][NextDecode]_vars

\* ------------------------------------------------- the time of a name
\* Lines 110-119 of parse_forecast_name_impl on their own: the offset of a
\* time literal is looked up at the instant the literal denotes at the
\* primary offset of the zone.

\* The literals lie within MaxLead ten-minute ticks of a transition.
MaxLead == 12

\* Lines 110-119.
ResolveTime(tz, primitive) ==
    LET primary_offset == get_offset_primary(tz)
        guess_time == assume_offset(primitive, primary_offset)
        real_offset == get_offset_utc(tz, guess_time)
    IN  replace_offset(guess_time, real_offset)

\* time_tz zones with a seasonal rule, as Australia/Melbourne in 2023:
\* standard + step until 2023-04-01T16:00Z, standard until
\* 2023-09-30T16:00Z, standard + step from then on.
SeasonalZone(standard, step, primary) ==
    [primary |-> primary,
     spans |-> <<[from |-> Minutes(1, 0, 0) - Hours(24), offset |-> standard + step],
                 [from |-> Minutes(91, 16, 0), offset |-> standard],
                 [from |-> Minutes(273, 16, 0), offset |-> standard + step]>>]

\* The zones of the inputs: standard offsets east and west of Greenwich,
\* seasonal steps of an hour and of half an hour, and as primary offset the
\* standard offset, the seasonal one, one between them, one 20 minutes
\* below the standard offset (a local mean time) and one a step below it.
SeasonalZones ==
    UNION {UNION {{SeasonalZone(standard, step, primary) :
                      primary \in {standard, standard + step, standard + 10,
                                   standard - 20, standard - step}} :
                  step \in {30, 60}} :
           standard \in {Hours(10), 0 - Hours(5)}}

InitResolve ==
    /\ store = [i \in Ids |-> None]
    /\ remote = [i \in Ids |-> [mime_type |-> SheetMime, content |-> 1,
                                modified_time |-> 1,
            stamps |-> {1}, regular |-> TRUE]]
    /\ schema = 1
    /\ call = [p \in Procs |-> IdleCall]
    /\ hist = [p \in Procs |-> IdleHist]
    /\ last = [i \in Ids |-> None]
    /\ reparses = [i \in Ids |-> 0]
    /\ started = 0
    /\ changes = 0
    /\ folder = <<>>
    /\ handler = [p \in Procs |-> IdleHandler]
    /\ decoder = IdleDecoder
    /\ ordering = IdleOrdering
    /\ resolver = IdleResolver

\* Lines 110-119 run for some zone and some literal within MaxLead ticks of
\* the wall-clock time at which one of the zone's transitions happens.
Resolve ==
    /\ ~resolver.called
    /\ \E tz \in SeasonalZones, k \in 2..3, t \in (0 - MaxLead)..MaxLead :
          LET primitive == tz.spans[k].from + tz.spans[2].offset + 10 * t
          IN  resolver' = [called |-> TRUE, tz |-> tz, primitive |-> primitive,
                           result |-> ResolveTime(tz, primitive)]
    /\ UNCHANGED <<store, remote, schema, call, hist, last, reparses, started, changes>>
    /\ UNCHANGED <<folder, handler, decoder, ordering>>

NextResolve == Resolve

SpecResolve == InitResolve /\ [][NextResolve]_vars

\* ------------------------------------------------------- order_languages
\* i18n.rs lines 100-116.  A language identifier is a symbol; an item is a
\* pair of a language identifier and a payload, as in
\* ordered_language_display_names (lines 90-98), so that two items of the
\* same language are told apart.
MaxItems == 3       \* items in `unordered`
MaxOrder == 2       \* entries of `language_order`

LanguageIdentifiers == {"en", "en-US", "ka"}
Items == LanguageIdentifiers \X {1, 2}

\* The `eq` argument as the set of pairs it accepts: the identifier equality
\* the callers pass (lines 96 and 123), and a coarser match on the language
\* subtag, under which one item matches several entries of language_order.
language(l) == IF l = "en-US" THEN "en" ELSE l
EqId == {m \in Items \X LanguageIdentifiers : m[1][1] = m[2]}
EqLanguage == {m \in Items \X LanguageIdentifiers : language(m[1][1]) = language(m[2])}
Eqs == {EqId, EqLanguage}

\* A variant of position that finds the last match (Iterator::rposition).
rposition(v, l, eq) ==
    LET matches == {i \in DOMAIN v : <<v[i], l>> \in eq}
    IN  IF matches = {} THEN None
        ELSE Some(CHOOSE i \in matches : \A j \in matches : j <= i)

\* Line 110, Iterator::position: the index of the first item eq matches to l.
position(v, l, eq) ==
    LET matches == {i \in DOMAIN v : <<v[i], l>> \in eq}
    IN  IF matches = {} THEN None
        ELSE Some(CHOOSE i \in matches : \A j \in matches : i <= j)

\* Line 111, Vec::remove: the vector without its i-th item, the items after
\* it shifted down.
remove(v, i) == SubSeq(v, 1, i - 1) \o SubSeq(v, i + 1, Len(v))

\* Lines 109-113: the loop over language_order, from its entry k on.
RECURSIVE order_languages_from(_, _, _, _, _)
order_languages_from(k, unordered, ordered, language_order, eq) ==
    IF k > Len(language_order)
    THEN ordered \o unordered                                  \* lines 114-115
    ELSE LET i == position(unordered, language_order[k], eq)
         IN  IF i # None
             THEN order_languages_from(k + 1, remove(unordered, i[1]),
                                       Append(ordered, unordered[i[1]]),
                                       language_order, eq)
             ELSE order_languages_from(k + 1, unordered, ordered,
                                       language_order, eq)

\* Lines 103-116.
order_languages(unordered, language_order, eq) ==
    order_languages_from(1, unordered, <<>>, language_order, eq)

InitOrder ==
    /\ store = [i \in Ids |-> None]
    /\ remote = [i \in Ids |-> [mime_type |-> SheetMime, content |-> 1,
                                modified_time |-> 1,
            stamps |-> {1}, regular |-> TRUE]]
    /\ schema = 1
    /\ call = [p \in Procs |-> IdleCall]
    /\ hist = [p \in Procs |-> IdleHist]
    /\ last = [i \in Ids |-> None]
    /\ reparses = [i \in Ids |-> 0]
    /\ started = 0
    /\ changes = 0
    /\ folder = <<>>
    /\ handler = [p \in Procs |-> IdleHandler]
    /\ decoder = IdleDecoder
    /\ ordering = IdleOrdering
    /\ resolver = IdleResolver

\* order_languages is called with some items, some language_order and some
\* eq, and returns.
Order ==
    /\ ~ordering.called
    /\ \E unordered \in SeqsUpTo(Items, MaxItems),
          language_order \in SeqsUpTo(LanguageIdentifiers, MaxOrder),
          eq \in Eqs :
          ordering' =
             [called |-> TRUE, unordered |-> unordered,
              language_order |-> language_order, eq |-> eq,
              result |-> order_languages(unordered, language_order, eq)]
    /\ UNCHANGED <<store, remote, schema, call, hist, last, reparses, started, changes>>
    /\ UNCHANGED <<folder, handler, decoder, resolver>>

NextOrder == Order

SpecOrder == InitOrder /\ [][NextOrder]_vars

\* ------------------------------------------------------------- properties
Md(p) == call[p].file_metadata[1]
Fetches(p) == hist[p].raw_fetches + hist[p].export_fetches
Looked(p) == hist[p].seen # None
SeenRow(p) == hist[p].seen[1]
\* The SELECT of request p returned a row with the listing's modified_time.
SawFresh(p) ==
    /\ Looked(p)
    /\ SeenRow(p) # None
    /\ SeenRow(p)[1].last_modified = Md(p).modified_time
\* Request p has ended with the failure of its UPDATE.
UpdateFailed(p) ==
    /\ call[p].pc = "done"
    /\ call[p].result = Err("StorageError")
    /\ call[p].forecast # None

\* C1: in every state of the table, every row has parsed_forecast and
\* schema_version both present or both absent, whatever requests ran,
\* overlapped or failed.
C1_ParsedFieldsPaired ==
    \A id \in Ids :
        store[id] # None =>
            ((store[id][1].parsed_forecast = None)
                <=> (store[id][1].schema_version = None))

\* C1 witness: a request's UPDATE of the parsed columns failed on a row that
\* has neither of the two fields.
C1_Witness ==
    \E p \in Procs :
        /\ UpdateFailed(p)
        /\ store[Md(p).id] # None
        /\ store[Md(p).id][1].parsed_forecast = None
        /\ store[Md(p).id][1].schema_version = None


\* The raw content request p works with: the row it read, or the record it
\* built from its fetch.
UsedBlob(p) == call[p].forecast_file[1].file_blob

\* What C2 promises to a request whose SELECT came after a successful
\* request `first` with the same modified_time.
C2_SecondCall(p, first) ==
    /\ Fetches(p) = 0
    /\ call[p].pc # "fetch"
    /\ Succeeded(call[p]) => UsedBlob(p) = first.rec.file_blob

\* C2 as stated: when modified_time is unchanged between two requests for
\* one id (the first one successful), the second performs no content fetch
\* and works with the raw content the first one left in the table.
C2_Original ==
    \A p \in Procs :
        hist[p].prev # None => C2_SecondCall(p, hist[p].prev[1])

\* C2 amended: the same, provided no other request's write to the row
\* committed between the first request's SELECT and the second one's.
C2_FreshnessIdempotence ==
    \A p \in Procs :
        (hist[p].prev # None /\ hist[p].prev[1].intact)
            => C2_SecondCall(p, hist[p].prev[1])

\* C2 witness: a second request under an unchanged modified_time has been
\* answered from the row that a fetching request left.
C2_Witness ==
    \E p \in Procs :
        /\ hist[p].prev # None
        /\ hist[p].prev[1].intact
        /\ Succeeded(call[p])
        /\ UsedBlob(p).c = remote[Md(p).id].content
        /\ changes > 0

\* What the committing UPDATE of request p does, for C3.
C3_Reparse(p) ==
    LET c == call[p]
        id == Md(p).id
        old == store[id][1]
        row == SeenRow(p)[1]
    IN  /\ store[id] # None
        /\ hist[p].parses = 1
        /\ Fetches(p) = 0
        /\ c.forecast = Parse(row.file_blob, c.forecast_schema)
        /\ store'[id] = Some([last_modified |-> old.last_modified,
                              file_blob |-> old.file_blob,
                              parsed_forecast |-> c.forecast,
                              schema_version |-> Some(c.forecast_schema)])
        /\ call'[p].result = Ok("Forecast", c.forecast[1])

\* C3: a Forecast request that finds a fresh row tagged with another schema
\* version runs the parser on the row's file_blob without fetching; when
\* its UPDATE commits, the row holds that parse under the request's version
\* and its file_blob and last_modified are the ones before the UPDATE.
C3_SchemaUpgradeReparse ==
    [][\A p \in Procs :
          ( /\ call[p].pc = "update"
            /\ Succeeded(call'[p])
            /\ SawFresh(p)
            /\ SeenRow(p)[1].schema_version # None
            /\ SeenRow(p)[1].schema_version # Some(call[p].forecast_schema) )
          => C3_Reparse(p)]_vars

\* C3 witness: a row parsed under version 1 was found fresh by a request
\* under version 2, whose UPDATE committed.
C3_Witness ==
    \E p \in Procs :
        /\ Succeeded(call[p])
        /\ SawFresh(p)
        /\ SeenRow(p)[1].schema_version = Some(1)
        /\ call[p].forecast_schema = 2
        /\ hist[p].writes = 1
        /\ store[Md(p).id][1].schema_version = Some(2)

\* C4 as stated: while modified_time stays the same, the parser runs at
\* most once on the fresh row under an upgraded schema version.
C4_Original ==
    \A id \in Ids : schema > 1 => reparses[id] <= 1

\* C4 amended: once a Forecast request under the version has succeeded and
\* no other request's write committed since its SELECT, a later Forecast
\* request under that version returns the stored parse, without parsing,
\* fetching or writing.
C4_ReuseAfterReparse ==
    \A p \in Procs :
        ( /\ call[p].requested = "Forecast"
          /\ hist[p].prev # None
          /\ hist[p].prev[1].intact
          /\ hist[p].prev[1].rec.schema_version = Some(call[p].forecast_schema) )
        => /\ hist[p].parses = 0
           /\ hist[p].writes = 0
           /\ Fetches(p) = 0
           /\ call[p].pc = "done"
           /\ call[p].result =
                  Ok("Forecast", hist[p].prev[1].rec.parsed_forecast[1])

\* C4 witness: after the upgrade to version 2 and a reparse, a later request
\* under version 2 was served the stored parse.
C4_Witness ==
    \E p \in Procs :
        /\ call[p].requested = "Forecast"
        /\ call[p].forecast_schema = 2
        /\ hist[p].prev # None
        /\ hist[p].prev[1].intact
        /\ hist[p].prev[1].rec.schema_version = Some(2)
        /\ hist[p].prev[1].rec.file_blob.fmt = "export"
        /\ reparses[Md(p).id] = 1
        /\ schema = 2
        /\ call[p].pc = "done"

\* C5: a Forecast result is a parse under the request's schema version:
\* either the parse this request computed, or the stored parse of a row
\* whose schema_version is the request's version.
C5_ParseUnderCurrentSchema ==
    \A p \in Procs :
        (call[p].pc = "done" /\ call[p].result[1].kind = "Forecast") =>
            LET v == call[p].result[1].value
                version == call[p].forecast_schema
            IN  /\ v.ver = version
                /\ hist[p].parses > 0 => Some(v) = Parse(UsedBlob(p), version)
                /\ hist[p].parses = 0 =>
                      /\ SawFresh(p)
                      /\ SeenRow(p)[1].schema_version = Some(version)
                      /\ SeenRow(p)[1].parsed_forecast = Some(v)

\* C5 witness: a request under version 2 found a fresh row parsed under
\* version 1 and returned a parse.
C5_Witness ==
    \E p \in Procs :
        /\ call[p].pc = "done"
        /\ call[p].result[1].kind = "Forecast"
        /\ call[p].forecast_schema = 2
        /\ SawFresh(p)
        /\ SeenRow(p)[1].schema_version = Some(1)


\* Request p is on, or has gone through, the refetch branch.
Refetches(p) == Fetches(p) > 0 \/ call[p].pc \in {"fetch", "upsert"}

\* C6: a request fetches content only when its SELECT returned no row or a
\* row with another last_modified; a request that found a row with the
\* listing's modified_time never changes the file_blob of the row.
C6_FetchOnlyOnMismatch ==
    /\ [](\A p \in Procs :
            Refetches(p) =>
                /\ Looked(p)
                /\ \/ SeenRow(p) = None
                   \/ SeenRow(p)[1].last_modified # Md(p).modified_time)
    /\ [][\A p \in Procs :
            (SawFresh(p) /\ call'[p] # call[p] /\ store[Md(p).id] # None) =>
                /\ store'[Md(p).id] # None
                /\ store'[Md(p).id][1].file_blob = store[Md(p).id][1].file_blob]_vars

\* C6 witness: a request found the row with the listing's modified_time
\* while the document's content had changed, and wrote the parsed columns.
C6_Witness ==
    \E p \in Procs :
        /\ SawFresh(p)
        /\ hist[p].writes = 1
        /\ SeenRow(p)[1].file_blob.c # remote[Md(p).id].content
        /\ store[Md(p).id][1].file_blob = SeenRow(p)[1].file_blob

\* C7: a request treats the row as fresh exactly when the row exists and
\* its last_modified equals the listing's modified_time: every other
\* request, also one whose listing is older than the row, refetches and
\* overwrites; a fresh row is served as it is, also when the document's
\* content has changed.
C7_ExactEquality ==
    \A p \in Procs :
        Looked(p) =>
            /\ SawFresh(p) <=> ~Refetches(p)
            /\ (SawFresh(p) /\ Succeeded(call[p])) =>
                  UsedBlob(p) = SeenRow(p)[1].file_blob
            /\ (~SawFresh(p) /\ Succeeded(call[p])) =>
                  /\ hist[p].writes = 1
                  /\ UsedBlob(p) = hist[p].fetched[1]
                  /\ call[p].forecast_file[1].last_modified = Md(p).modified_time

\* C7 witness: a request whose listing is older than the row has refetched
\* and overwritten the row.
C7_Witness ==
    \E p \in Procs :
        /\ Looked(p)
        /\ SeenRow(p) # None
        /\ SeenRow(p)[1].last_modified > Md(p).modified_time
        /\ Succeeded(call[p])
        /\ store[Md(p).id][1].last_modified = Md(p).modified_time

\* C8: a step that changes a row either is the upsert of a request, which
\* sets file_blob to the bytes the request fetched and last_modified to the
\* modified_time of its listing, or leaves both file_blob and last_modified
\* as they were.
C8_LockStep ==
    [][\A id \in Ids :
          store'[id] # store[id] =>
              \/ \E p \in Procs :
                    /\ call[p].pc = "upsert"
                    /\ Md(p).id = id
                    /\ store'[id] # None
                    /\ store'[id][1].file_blob = hist[p].fetched[1]
                    /\ store'[id][1].last_modified = Md(p).modified_time
              \/ /\ store[id] # None
                 /\ store'[id] # None
                 /\ store'[id][1].file_blob = store[id][1].file_blob
                 /\ store'[id][1].last_modified = store[id][1].last_modified]_vars

\* C8 witness: a row has been overwritten by an upsert with another
\* modified_time, and a request's UPDATE of the parsed columns committed.
C8_Witness ==
    \E p, q \in Procs :
        /\ Succeeded(call[p]) /\ hist[p].writes = 1 /\ hist[p].fetched = None
        /\ Succeeded(call[q]) /\ hist[q].writes = 1 /\ hist[q].fetched # None
        /\ SeenRow(q) # None

\* What the committing upsert of request p does, for C9.
C9_Replaced(p) ==
    LET c == call[p]
        bytes == hist[p].fetched[1]
        parsed == IF c.requested = "Forecast"
                  THEN Parse(bytes, c.forecast_schema) ELSE None
    IN  /\ ~SawFresh(p)
        /\ store'[Md(p).id] =
              Some([last_modified |-> Md(p).modified_time,
                    file_blob |-> bytes,
                    parsed_forecast |-> parsed,
                    schema_version |-> IF c.requested = "Forecast"
                                       THEN Some(c.forecast_schema) ELSE None])
        /\ c.requested = "Forecast" =>
              /\ parsed # None
              /\ call'[p].result = Ok("Forecast", parsed[1])
        /\ c.requested = "File" => call'[p].result = Ok("File", bytes)

\* C9: when the upsert of a request commits (the row was not fresh), the
\* row is exactly the record of this request: the listing's modified_time,
\* the fetched bytes, and the new parse with the request's schema version
\* for Forecast, neither of them for File; the request returns that parse,
\* or those bytes.
C9_StaleReplacesRecord ==
    [][\A p \in Procs :
          (call[p].pc = "upsert" /\ Succeeded(call'[p])) => C9_Replaced(p)]_vars

\* C9 witness: a File request found a stale row that held a parse, and the
\* row it left holds none.
C9_Witness ==
    \E p \in Procs :
        /\ call[p].requested = "File"
        /\ Looked(p)
        /\ SeenRow(p) # None
        /\ SeenRow(p)[1].parsed_forecast # None
        /\ Succeeded(call[p])
        /\ hist[p].writes = 1
        /\ store[Md(p).id][1].parsed_forecast = None

\* C10: the step in which a File request reads a fresh row ends the request
\* with the row's file_blob, without a fetch, a parse or a write, and the
\* table is left as it was.
C10_FreshRawFile ==
    [][\A p \in Procs :
          LET id == Md(p).id IN
          ( /\ call[p].pc = "select"
            /\ call[p].requested = "File"
            /\ hist'[p].seen # None
            /\ store[id] # None
            /\ store[id][1].last_modified = Md(p).modified_time )
          => /\ call'[p].pc = "done"
             /\ call'[p].result = Ok("File", store[id][1].file_blob)
             /\ store' = store
             /\ hist'[p].raw_fetches = 0 /\ hist'[p].export_fetches = 0
             /\ hist'[p].parses = 0 /\ hist'[p].writes = 0]_vars

\* C10 witness: a File request was served from a fresh row that holds a
\* parse, and the row still holds it.
C10_Witness ==
    \E p \in Procs :
        /\ call[p].requested = "File"
        /\ SawFresh(p)
        /\ SeenRow(p)[1].parsed_forecast # None
        /\ Succeeded(call[p])
        /\ store[Md(p).id] = SeenRow(p)

\* ------------------------------------------------ single pass, no retries
C11_AtMostOnce(p) ==
    /\ hist[p].lookups <= 1
    /\ Fetches(p) <= 1
    /\ hist[p].parses <= 1
    /\ hist[p].writes <= 1

Failed(p) == call[p].pc = "done" /\ call[p].result[1].kind = "Err"

\* The error a failure at position pc is reported as.
C11_ErrorsOf(pc) ==
    CASE pc = "idle" -> {"UnsupportedContentKind"}
      [] pc = "select" -> {"StorageError", "ParseError"}
      [] pc = "fetch" -> {"FetchError", "ParseError"}
      [] pc = "upsert" -> {"StorageError"}
      [] pc = "update" -> {"StorageError"}
      [] OTHER -> {}

\* C11: a request performs at most one lookup, one content fetch, one parse
\* and one write; the step in which something fails ends the request with
\* the error of that step, and a request that has failed does nothing more
\* until it is over.
C11_NoRetry ==
    /\ [](\A p \in Procs : C11_AtMostOnce(p))
    /\ [][\A p \in Procs :
            /\ (call[p].pc # "done" /\ call'[p].pc = "done"
                  /\ call'[p].result[1].kind = "Err")
               => call'[p].result[1].value \in C11_ErrorsOf(call[p].pc)
            /\ Failed(p)
               => \/ call'[p] = call[p] /\ hist'[p] = hist[p]
                  \/ call'[p] = IdleCall]_vars

\* C11 witness: a request looked up, fetched and parsed once each, and ended
\* with the failure of its upsert.
C11_Witness ==
    \E p \in Procs :
        /\ Failed(p)
        /\ call[p].result = Err("StorageError")
        /\ hist[p].lookups = 1
        /\ hist[p].export_fetches = 1
        /\ hist[p].parses = 1
        /\ hist[p].writes = 0

\* --------------------------------------------------- unsupported MIME type
\* C12: a Forecast request for a document whose MIME type is not the
\* spreadsheet type ends at once with UnsupportedContentKind: no lookup, no
\* fetch, no parse, no write, and the step leaves the table as it was.
C12_UnsupportedContentKind ==
    /\ [](\A p \in Procs :
            ( /\ call[p].pc # "idle"
              /\ call[p].requested = "Forecast"
              /\ Md(p).mime_type # SheetMime )
            => /\ call[p].pc = "done"
               /\ call[p].result = Err("UnsupportedContentKind")
               /\ hist[p] = IdleHist)
    /\ [][\A p \in Procs :
            ( /\ call[p].pc = "idle"
              /\ call'[p].pc # "idle"
              /\ call'[p].requested = "Forecast"
              /\ call'[p].file_metadata[1].mime_type # SheetMime )
            => store' = store]_vars

\* C12 witness: the table holds a row for the document, and a Forecast
\* request for it was refused.
C12_Witness ==
    \E p \in Procs :
        /\ call[p].pc = "done"
        /\ call[p].result = Err("UnsupportedContentKind")
        /\ Md(p).mime_type = PdfMime
        /\ store[Md(p).id] # None

C14_NeverDeleted ==
    [][\A id \in Ids :
          store[id] # None
          => /\ store'[id] # None
             /\ store'[id][1].file_blob \in Bytes
             /\ store'[id][1].last_modified \in Times]_vars

\* C14 witness: a request that read a row has failed, and the row is there.
C14_Witness ==
    \E p \in Procs :
        /\ Failed(p)
        /\ Looked(p)
        /\ SeenRow(p) # None
        /\ store[Md(p).id] # None

\* ------------------------------------------------------ overlapping misses
\* The SELECT of request p returned no row with the listing's modified_time.
C15_Stale(p) == Looked(p) /\ ~SawFresh(p)
\* Request p found no fresh row and has ended after its upsert committed.
C15_Upserted(p) ==
    /\ call[p].pc = "done"
    /\ C15_Stale(p)
    /\ hist[p].writes = 1

\* C15: every request that finds no fresh row downloads (and parses) for
\* itself and upserts the record it built; the upsert leaves exactly that
\* record in the table, and when two such requests for one document have
\* ended the row is the record of one of them in all four fields.
C15_NoCoordination ==
    /\ [](\A p \in Procs :
            (C15_Stale(p) /\ Succeeded(call[p]))
            => /\ Fetches(p) = 1
               /\ hist[p].writes = 1
               /\ call[p].requested = "Forecast" => hist[p].parses = 1
               /\ call[p].forecast_file[1].file_blob = hist[p].fetched[1])
    /\ [](\A p, q \in Procs :
            ( /\ p # q
              /\ C15_Upserted(p)
              /\ C15_Upserted(q)
              /\ Md(p).id = Md(q).id )
            => store[Md(p).id] \in {call[p].forecast_file, call[q].forecast_file})
    /\ [][\A p \in Procs :
            ( /\ call[p].pc = "upsert"
              /\ call'[p].pc # "upsert"
              /\ hist'[p].writes = hist[p].writes + 1 )
            => store'[Md(p).id] = call[p].forecast_file]_vars

\* C15 witness: two requests found the table empty, each downloaded and
\* upserted a record of its own, and the row is the record of one of them.
C15_Witness ==
    \E p, q \in Procs :
        /\ p # q
        /\ C15_Upserted(p) /\ C15_Upserted(q)
        /\ SeenRow(p) = None /\ SeenRow(q) = None
        /\ Fetches(p) = 1 /\ Fetches(q) = 1
        /\ call[p].forecast_file # call[q].forecast_file
        /\ store[Md(p).id] = call[q].forecast_file

\* ------------------------------------------- the listing guards the cache
\* The positions of the entries of request p's listing that have the
\* requested name.
C16_Named(p) ==
    {i \in 1..Len(handler[p].file_list) :
        handler[p].file_list[i].name = handler[p].file_name}

\* C16: get_forecast_data runs only inside a handler_impl that found the
\* requested name in the listing it fetched, and its file_metadata is the
\* first entry of that listing that has the name; when the listing has no
\* entry of the name the response is NOT_FOUND and that step calls nothing:
\* no lookup, no fetch, no write.
C16_CallerAuthorizes ==
    /\ [](\A p \in Procs :
            call[p].pc # "idle"
            => /\ handler[p].pc = "call"
               /\ \E i \in C16_Named(p) :
                     /\ handler[p].file_list[i] = call[p].file_metadata[1]
                     /\ \A j \in C16_Named(p) : i <= j)
    /\ [](\A p \in Procs :
            handler[p].response = Ok("Status", "NOT_FOUND")
            => C16_Named(p) = {} /\ call[p] = IdleCall /\ hist[p] = IdleHist)
    /\ [][\A p \in Procs :
            ( /\ handler[p].pc = "list"
              /\ handler'[p].pc # "list"
              /\ handler'[p].response # Err("FetchError")
              /\ \A i \in 1..Len(handler'[p].file_list) :
                    handler'[p].file_list[i].name # handler[p].file_name )
            => /\ handler'[p].response = Ok("Status", "NOT_FOUND")
               /\ call'[p] = IdleCall
               /\ hist'[p] = IdleHist
               /\ store' = store]_vars

\* C16 witness: the listing holds two documents of the requested name, and
\* get_forecast_data has looked up the first of them.
C16_Witness ==
    \E p \in Procs :
        /\ handler[p].pc = "call"
        /\ Len(handler[p].file_list) = 2
        /\ C16_Named(p) = {1, 2}
        /\ call[p].file_metadata = Some(handler[p].file_list[1])
        /\ hist[p].lookups = 1

\* ---------------------------------------------------------- decoded names
Decoded == decoder.called /\ decoder.result[1].kind # "Err"
\* The zone the area table gives the first token of the name.
ZoneOfArea ==
    decoder.area_definitions[decoder.area_name_map[decoder.details[1]]].time_zone

\* C17: a name <area>_<time literal>_<forecaster>.<lang>.<ext> whose area
\* is in the table with a zone of one fixed offset decodes to that area,
\* that forecaster, the language <lang> and the literal's wall-clock time at
\* the fixed offset.
C17_NominalDecoding ==
    LET n == decoder.file_name IN
    ( /\ decoder.called
      /\ Len(n) = 9
      /\ n[1] \in AreaLabels /\ n[2] = "_" /\ n[3] \in TimeLiterals /\ n[4] = "_"
      /\ n[5] \in Words /\ n[6] = "." /\ n[7] \in LanguageTags /\ n[8] = "."
      /\ <<n[9]>> \in Segments
      /\ <<n[1]>> \in DOMAIN decoder.area_name_map
      /\ decoder.area_name_map[<<n[1]>>] \in DOMAIN decoder.area_definitions
      /\ Len(ZoneOfArea.spans) = 1 )
    => decoder.result =
          Ok("ForecastFileDetails",
             [forecast |->
                 [area |-> <<n[1]>>,
                  time |-> [local |-> TimeOf[n[3]],
                            offset |-> ZoneOfArea.spans[1].offset],
                  forecaster |-> <<n[5]>>],
              language |-> Some(n[7])])

\* C17 witness: Gudauri_2023-01-24T17:00_LF.en.pdf, with a zone whose
\* primary offset is not its offset of 2023, decodes to 17:00 at +04:00,
\* forecaster LF, language en.
C17_Witness ==
    /\ decoder.called
    /\ decoder.file_name =
          <<"Gudauri", "_", "2023-01-24T17:00", "_", "LF", ".", "en", ".", "pdf">>
    /\ ZoneOfArea.primary # Hours(4)
    /\ decoder.result[1].kind = "ForecastFileDetails"
    /\ decoder.result[1].value.forecast.time =
          [local |-> Minutes(24, 17, 0), offset |-> Hours(4)]
    /\ decoder.result[1].value.forecast.forecaster = <<"LF">>
    /\ decoder.result[1].value.language = Some("en")

\* C18: a decoded time has the wall-clock fields of the literal and the
\* offset that is in force, by the rules of the zone, at the instant the
\* literal denotes when read at the primary offset of the zone.  With the
\* zone that goes from +10:00 to +11:00 at 2023-10-01T02:00 local, the
\* literal 2023-10-01T01:00 gets +10:00 and 2023-10-01T02:00 gets +11:00.
C18_TwoPhaseOffset ==
    Decoded =>
    LET tz == ZoneOfArea
        literal == decoder.details[2][1]
        time == decoder.result[1].value.forecast.time
        provisional == TimeOf[literal] - tz.primary
    IN  /\ time.local = TimeOf[literal]
        /\ \E k \in 1..Len(tz.spans) :
              /\ tz.spans[k].from <= provisional
              /\ k < Len(tz.spans) => provisional < tz.spans[k + 1].from
              /\ time.offset = tz.spans[k].offset
        /\ (decoder.details[1] = <<"Melbourne">> /\ literal = "2023-10-01T01:00")
           => time.offset = Hours(10)
        /\ (decoder.details[1] = <<"Melbourne">> /\ literal = "2023-10-01T02:00")
           => time.offset = Hours(11)

\* C18 witness: Melbourne_2023-10-01T02:00_LF.en.pdf, primary offset +10:00,
\* decodes to 02:00 at +11:00.
C18_Witness ==
    /\ Decoded
    /\ decoder.file_name =
          <<"Melbourne", "_", "2023-10-01T02:00", "_", "LF", ".", "en", ".", "pdf">>
    /\ ZoneOfArea.primary = Hours(10)
    /\ decoder.result[1].value.forecast.time =
          [local |-> Minutes(274, 2, 0), offset |-> Hours(11)]

\* C19: when the first token of the details segment is not a key of
\* area_name_map the result is the error "Cannot find area id", whatever
\* the other tokens and segments are.
C19_UnknownArea ==
    (decoder.called /\ decoder.details[1] \notin DOMAIN decoder.area_name_map)
    => decoder.result = DecodeErr("UnknownArea", "Cannot find area id")

\* C19 witness: an unknown area in a name that also lacks the time and the
\* forecaster and has an ill-formed language segment.
C19_Witness ==
    /\ decoder.called
    /\ decoder.file_name = <<"Nowhere", ".", "e1">>
    /\ decoder.result = DecodeErr("UnknownArea", "Cannot find area id")

\* C20 as stated: every name whose details segment has fewer than three
\* tokens is refused as MalformedName.
C20_Original ==
    (decoder.called /\ Len(decoder.details) < 3)
    => /\ decoder.result[1].kind = "Err"
       /\ decoder.result[1].value.error = "MalformedName"

\* C21 as stated: the empty file name is refused as MalformedName, with the
\* error "File name is empty", whatever the area table is.
C21_Original ==
    (decoder.called /\ decoder.file_name = <<>>)
    => decoder.result = DecodeErr("MalformedName", "File name is empty")

\* The details segment passes every check: three tokens or more, the first
\* an area of both maps, the second a time literal.
DetailsValid ==
    /\ decoder.called
    /\ Len(decoder.details) >= 3
    /\ decoder.details[1] \in DOMAIN decoder.area_name_map
    /\ decoder.area_name_map[decoder.details[1]] \in DOMAIN decoder.area_definitions
    /\ Len(decoder.details[2]) = 1
    /\ decoder.details[2][1] \in TimeLiterals

\* C22: for a name whose details segment is well formed, no segment after
\* the details segment gives a result without language; a segment after it
\* that is a language tag gives that language; one that is no language tag
\* gives the error "Unable to parse language", never a result without
\* language.
C22_OptionalLanguage ==
    DetailsValid =>
       /\ decoder.segments = <<>>
          => Decoded /\ decoder.result[1].value.language = None
       /\ (decoder.segments # <<>> /\ decoder.segments[1][1] \in LanguageTags)
          => Decoded /\ decoder.result[1].value.language = Some(decoder.segments[1][1])
       /\ (decoder.segments # <<>> /\ decoder.segments[1][1] \notin LanguageTags)
          => decoder.result = DecodeErr("LanguageParseError", "Unable to parse language")

\* C22 witness: Gudauri_2023-01-24T17:00_LF.e1.pdf is refused for its
\* language segment.
C22_Witness ==
    /\ DetailsValid
    /\ decoder.file_name =
          <<"Gudauri", "_", "2023-01-24T17:00", "_", "LF", ".", "e1", ".", "pdf">>
    /\ decoder.result = DecodeErr("LanguageParseError", "Unable to parse language")


\* C23: a listing fails as a whole when Drive answers any page query with an
\* error object (code, errors, message): the request ends with the error and
\* the files of earlier pages are dropped, no get_forecast_data call being
\* made.  A body with a files array is a page: its files are appended, and
\* its nextPageToken, when present, is the token of the next query.
C23_ListingFailsWhole ==
    [][\A p \in Handlers :
        (handler[p].pc = "list" /\ handler'[p].answer # handler[p].answer) =>
            LET body == handler'[p].answer[1]
                h == handler'[p]
            IN  /\ ({"code", "errors", "message"} \subseteq DOMAIN body
                        /\ "files" \notin DOMAIN body) =>
                       /\ h.pc = "done"
                       /\ h.response = Err("FetchError")
                       /\ h.file_list = <<>>
                       /\ call'[p] = call[p]
                /\ "files" \in DOMAIN body =>
                       /\ h.response # Err("FetchError")
                       /\ h.file_list = handler[p].file_list \o body.files
                       /\ IF "nextPageToken" \in DOMAIN body
                          THEN /\ h.pc = "list"
                               /\ h.page_token = Some(body.nextPageToken)
                          ELSE h.pc # "list"]_vars

\* An error object answered the query for a later page, after a page with
\* files had been collected.
C23_Witness ==
    \E p \in Handlers :
        /\ handler[p].answer = Some(ErrorBody)
        /\ handler[p].page_token # None
        /\ handler[p].page_token[1] > 0
        /\ handler[p].file_list = <<>>
        /\ handler[p].response = Err("FetchError")


\* ------------------------------------------------------ ordered languages
\* The positions of `unordered` taken by the first k entries of
\* language_order, in the order they are taken: each entry takes the first
\* position not yet taken whose item eq matches to it, if there is one.
RECURSIVE Taken(_, _, _, _)
Taken(k, unordered, language_order, eq) ==
    IF k = 0 THEN <<>>
    ELSE LET before == Taken(k - 1, unordered, language_order, eq)
             free == {i \in DOMAIN unordered :
                        /\ \A j \in DOMAIN before : before[j] # i
                        /\ <<unordered[i], language_order[k]>> \in eq}
         IN  IF free = {} THEN before
             ELSE Append(before, CHOOSE i \in free : \A j \in free : i <= j)

\* The positions of `unordered` from i on that are not in `taken`, ascending.
RECURSIVE Untaken(_, _, _)
Untaken(i, n, taken) ==
    IF i > n THEN <<>>
    ELSE IF \E j \in DOMAIN taken : taken[j] = i
    THEN Untaken(i + 1, n, taken)
    ELSE <<i>> \o Untaken(i + 1, n, taken)

\* C24: order_languages returns a permutation of its input: the items matched
\* by language_order, in the order of language_order, each entry taking the
\* first matching item not taken by an earlier entry, and then the unmatched
\* items in their original relative order; same length, same elements.
C24_OrderedPermutation ==
    ordering.called =>
        LET unordered == ordering.unordered
            result == ordering.result
            taken == Taken(Len(ordering.language_order), unordered,
                           ordering.language_order, ordering.eq)
            places == taken \o Untaken(1, Len(unordered), taken)
        IN  /\ Len(result) = Len(unordered)
            /\ \A t \in Items :
                  Cardinality({i \in DOMAIN result : result[i] = t})
                     = Cardinality({i \in DOMAIN unordered : unordered[i] = t})
            /\ Len(places) = Len(unordered)
            /\ \A i \in DOMAIN result : result[i] = unordered[places[i]]

\* Two items of one language and an item of no listed language, ordered by
\* a language_order whose second entry matches what is left of the first's.
C24_Witness ==
    /\ ordering.called
    /\ ordering.unordered = <<<<"ka", 1>>, <<"en", 1>>, <<"en", 2>>>>
    /\ ordering.language_order = <<"en", "en">>
    /\ ordering.eq = EqId
    /\ ordering.result = <<<<"en", 1>>, <<"en", 2>>, <<"ka", 1>>>>


\* ------------------------------------------------ parse and content of a row
\* C25 as stated: in every state of the table a row whose parsed_forecast is
\* present holds the parse of that row's file_blob under that row's
\* schema_version.
C25_Original ==
    \A id \in DOMAIN store :
        (store[id] # None /\ store[id][1].parsed_forecast # None) =>
            Some(store[id][1].parsed_forecast[1]) =
                Parse(store[id][1].file_blob, store[id][1].schema_version[1])


\* -------------------------------------------- the row of the current listing
\* C26: while every edit of the document got a last_modified it never had
\* before (each request reads the content after its listing), a row whose
\* last_modified is the document's current one holds the document's current
\* content, in every state and under any interleaving of requests.
C26_CurrentStampCurrentContent ==
    \A id \in DOMAIN store :
        (/\ remote[id].regular
         /\ store[id] # None
         /\ store[id][1].last_modified = remote[id].modified_time)
        => store[id][1].file_blob.c = remote[id].content

\* After an edit with a new last_modified and new content, the row has been
\* replaced and carries the new last_modified.
C26_Witness ==
    \E id \in DOMAIN store :
        /\ remote[id].regular
        /\ changes > 0
        /\ remote[id].content # 1
        /\ store[id] # None
        /\ store[id][1].last_modified = remote[id].modified_time
        /\ store[id][1].file_blob.c = remote[id].content


\* ------------------------------------------------- failures leave no trace
\* C27: a request that ends in an error (unsupported content kind, fetch,
\* parse, SELECT, upsert or UPDATE failure) has written nothing to the
\* table, and the step in which it fails leaves every row as it was: no row
\* is created, none is changed.  In particular a parse failure on a stale
\* row keeps the old row, with its old last_modified, and stores nothing of
\* the download.
C27_ErrorsWriteNothing ==
    /\ [](\A p \in Procs : Failed(p) => hist[p].writes = 0)
    /\ [][\A p \in Procs :
            (/\ call[p].pc # "done"
             /\ call'[p].pc = "done"
             /\ call'[p].result[1].kind = "Err") => store' = store]_vars

\* A download of a stale row's document did not parse: the row the SELECT
\* returned is still in the table, with another last_modified than the
\* listing's.
C27_Witness ==
    \E p \in Procs :
        /\ Failed(p)
        /\ call[p].result = Err("ParseError")
        /\ hist[p].export_fetches = 1
        /\ hist[p].seen # None
        /\ hist[p].seen[1] # None
        /\ store[Md(p).id] = hist[p].seen[1]
        /\ store[Md(p).id][1].last_modified # Md(p).modified_time


\* ------------------------------------------------- the download of a miss
\* C28: when the row is not fresh, the Drive request made is determined by
\* the requested data alone: a Forecast request makes one export request and
\* no raw download, a File request one raw download and no export request;
\* and the bytes received are the file_blob the upsert stores.
C28_FetchByKind ==
    [][\A p \in Procs :
        /\ (call[p].pc = "fetch" /\ call'[p].pc # "fetch") =>
              /\ call[p].requested = "Forecast" =>
                    /\ hist'[p].export_fetches = 1
                    /\ hist'[p].raw_fetches = 0
              /\ call[p].requested = "File" =>
                    /\ hist'[p].raw_fetches = 1
                    /\ hist'[p].export_fetches = 0
        /\ (call[p].pc = "upsert" /\ hist'[p].writes > hist[p].writes) =>
              LET id == call[p].file_metadata[1].id
              IN  /\ store'[id] # None
                  /\ Some(store'[id][1].file_blob) = hist[p].fetched
                  /\ store'[id][1].file_blob.fmt =
                        (IF call[p].requested = "Forecast" THEN "export" ELSE "raw")
                  /\ hist[p].raw_fetches + hist[p].export_fetches = 1]_vars

\* A File request on a stale row that held a parse has stored its raw
\* download.
C28_Witness ==
    \E p \in Procs :
        /\ call[p].pc = "done"
        /\ call[p].requested = "File"
        /\ hist[p].raw_fetches = 1
        /\ hist[p].export_fetches = 0
        /\ hist[p].writes = 1
        /\ hist[p].seen # None
        /\ hist[p].seen[1] # None
        /\ hist[p].seen[1][1].parsed_forecast # None
        /\ Some(store[Md(p).id][1].file_blob) = hist[p].fetched
        /\ store[Md(p).id][1].file_blob.fmt = "raw"


\* ------------------------------------------------ raw and exported bytes
\* C29 as stated: for requests on a spreadsheet with arbitrary requested
\* data, the bytes handed to the parser always come from an export request
\* and the bytes returned to a File request always from a raw download.
C29_Original ==
    \A p \in Procs :
        (call[p].pc # "idle" /\ Md(p).mime_type = SheetMime) =>
            /\ call[p].forecast # None => call[p].forecast[1].of.fmt = "export"
            /\ (Succeeded(call[p]) /\ call[p].requested = "Forecast") =>
                  call[p].result[1].value.of.fmt = "export"
            /\ (Succeeded(call[p]) /\ call[p].requested = "File") =>
                  call[p].result[1].value.fmt = "raw"


\* ------------------------------------------------------------ convergence
\* Request p started when every request in flight had started after the
\* document's last edit, and the document was not edited since.
Settled(p) == hist[p].settled /\ ~hist[p].old

\* Request p ends with a result in this step.
Ends(p) ==
    /\ call[p].pc # "done"
    /\ call'[p].pc = "done"
    /\ call'[p].result[1].kind # "Err"

\* The Drive requests for content request p has made.
Downloads(h) == h.raw_fetches + h.export_fetches

\* C30 as stated: once the document has stopped changing and the requests
\* that started before its last edit are over, the first request to succeed
\* leaves the row with the document's last_modified and content, and from
\* then on no request downloads the content.
C30_Original ==
    [][\A p \in Procs :
        /\ (Ends(p) /\ Settled(p)) =>
              ConvergedRow(store'[Md(p).id], remote'[Md(p).id])
        /\ (Succeeded(call[p]) /\ Settled(p) /\ remote' = remote) =>
              \A q \in Procs \ {p} : Downloads(hist'[q]) <= Downloads(hist[q])]_vars

\* C30: while every edit of the document gets a last_modified it never had:
\* once the document has stopped changing and the requests that started
\* before its last edit are over, every request that starts from then on
\* and succeeds leaves the row with the document's last_modified and
\* content; the row keeps them as long as the document is not edited; and a
\* request that looks the row up while it has them downloads nothing.
C30_Convergence ==
    [][\A p \in Procs :
        LET id == Md(p).id
        IN  /\ (Ends(p) /\ Settled(p) /\ remote[id].regular) =>
                  /\ ConvergedRow(store'[id], remote'[id])
                  /\ \A q \in Procs :
                        (call'[q].pc \notin {"idle", "done"} /\ Md(q).id = id)
                        => ~hist'[q].old
            /\ (/\ call[p].pc \notin {"idle", "done"}
                /\ remote[id].regular
                /\ Converged(id)
                /\ Quiet(id, 0)
                /\ remote' = remote) => ConvergedRow(store'[id], remote'[id])
            /\ (/\ call[p].pc = "select"
                /\ ~hist[p].old
                /\ remote[id].regular
                /\ Converged(id)) => call'[p].pc # "fetch"]_vars

\* After an edit with a new last_modified and new content, one request has
\* downloaded the content and replaced the row, and one that started when
\* no older request was in flight has been served from the row.
C30_Witness ==
    \E p \in Procs, q \in Procs :
        /\ p # q
        /\ changes > 0
        /\ Succeeded(call[p]) /\ Settled(p)
        /\ remote[Md(p).id].regular
        /\ remote[Md(p).id].content # 1
        /\ Downloads(hist[p]) = 1 /\ hist[p].writes = 1
        /\ Succeeded(call[q]) /\ Settled(q)
        /\ Md(q).id = Md(p).id
        /\ hist[q].lookups = 1 /\ Downloads(hist[q]) = 0
        /\ Converged(Md(p).id)


\* ------------------------------------------------------ resolved instants
Abs(n) == IF n < 0 THEN 0 - n ELSE n

\* The largest change of offset at a transition of the zone.
SeasonalStep(tz) ==
    LET steps == {Abs(tz.spans[k + 1].offset - tz.spans[k].offset) :
                     k \in 1..(Len(tz.spans) - 1)}
    IN  CHOOSE d \in steps : \A e \in steps : e <= d

\* No offset of the zone is further than one seasonal step from the
\* primary offset.
WithinOneStep(tz) ==
    \A k \in 1..Len(tz.spans) :
        Abs(tz.spans[k].offset - tz.primary) <= SeasonalStep(tz)

\* The wall-clock time is skipped (the clock is put forward over it) or
\* repeated (the clock is put back over it) at a transition of the zone.
SkippedOrRepeated(tz, local) ==
    \E k \in 2..Len(tz.spans) :
        LET before == tz.spans[k - 1].offset
            after == tz.spans[k].offset
            lower == IF before < after THEN before ELSE after
            upper == IF before < after THEN after ELSE before
        IN  /\ tz.spans[k].from + lower <= local
            /\ local < tz.spans[k].from + upper

\* The offset the rules of the zone assign at an instant (UTC).
OffsetsAt(tz, instant) ==
    {tz.spans[k].offset : k \in
        {j \in 1..Len(tz.spans) :
            /\ tz.spans[j].from <= instant
            /\ j < Len(tz.spans) => instant < tz.spans[j + 1].from}}

FirstFailure ==
    LET details == decoder.details
        segments == decoder.segments
    IN  IF details[1] \notin DOMAIN decoder.area_name_map
        THEN "Cannot find area id"
        ELSE IF decoder.area_name_map[details[1]]
                    \notin DOMAIN decoder.area_definitions
        THEN "Cannot find area definition"
        ELSE IF Len(details) < 2 THEN "No time specified"
        ELSE IF details[2] \notin {<<w>> : w \in TimeLiterals}
        THEN "Error parsing time"
        ELSE IF Len(details) < 3 THEN "No forecaster specified"
        ELSE IF segments # <<>> /\ segments[1][1] \notin LanguageTags
        THEN "Unable to parse language"
        ELSE ""

\* The number of checks the name of the call fails.
Failures ==
    LET details == decoder.details
        segments == decoder.segments
        failed == <<details[1] \notin DOMAIN decoder.area_name_map
                        \/ decoder.area_name_map[details[1]]
                               \notin DOMAIN decoder.area_definitions,
                    Len(details) < 2,
                    Len(details) < 2
                        \/ details[2] \notin {<<w>> : w \in TimeLiterals},
                    Len(details) < 3,
                    segments # <<>> /\ segments[1][1] \notin LanguageTags>>
    IN  Cardinality({i \in 1..5 : failed[i]})

\* C32: the error of a refused name is that of the first failing check in
\* the order area lookup, presence of the time token, format of the time
\* literal, presence of the forecaster token, validity of the language
\* segment, whatever later checks fail as well; in particular an unknown
\* area is reported for a name that has too few tokens.  A name that fails
\* no check is decoded.
C32_FirstFailingCheck ==
    decoder.called =>
        IF FirstFailure = "" THEN Decoded
        ELSE /\ decoder.result[1].kind = "Err"
             /\ decoder.result[1].value.message = FirstFailure

\* C32 witness: Gudauri_24-01-2023.e1 has an ill-formed time, no forecaster
\* and an ill-formed language segment; the time is reported.
C32_Witness ==
    /\ decoder.called
    /\ decoder.file_name = <<"Gudauri", "_", "24-01-2023", ".", "e1">>
    /\ <<"Gudauri">> \in DOMAIN decoder.area_name_map
    /\ Failures = 3
    /\ decoder.result = DecodeErr("TimeParseError", "Error parsing time")


\* ------------------------------------------------------ the paged listing
\* One step of request p, seen from list_files.
PagingStep(p) ==
    LET h == handler[p]
        g == handler'[p]
        body == g.answer[1]
    IN  \* the first query carries no token and nothing is collected yet
        /\ (h.pc = "idle" /\ g.pc = "list")
           => g.page_token = None /\ g.file_list = <<>> /\ g.answer = None
        \* a page is appended to the pages before it; with a nextPageToken
        \* the next query carries that token, without one the listing ends
        \* and has every document of the folder once, in the order of Drive
        /\ (h.pc = "list" /\ g.answer # h.answer /\ "files" \in DOMAIN body)
           => /\ g.file_list = h.file_list \o body.files
              /\ IF "nextPageToken" \in DOMAIN body
                 THEN g.pc = "list" /\ g.page_token = Some(body.nextPageToken)
                 ELSE /\ g.pc # "list"
                      /\ g.response # Err("FetchError")
                      /\ [i \in 1..Len(g.file_list) |-> g.file_list[i].id]
                            = [i \in 1..Len(folder) |-> folder[i].id]
        \* the token of the queries changes only with an answer
        /\ (h.pc = "list" /\ g.answer = h.answer /\ g.pc = "list")
           => g.page_token = h.page_token /\ g.file_list = h.file_list
        \* the listing ends only with a page without token or with an error
        /\ (h.pc = "list" /\ g.pc # "list")
           => \/ g.answer # h.answer /\ "nextPageToken" \notin DOMAIN body
              \/ g.answer = h.answer /\ g.response = Err("FetchError")

\* C33: list_files sends its first query without a token and each later
\* query with the nextPageToken of the answer before it; it ends at the
\* first page without a token and returns the files of all pages in page
\* order, each once; it ends only with a page without a token or with an
\* error, and when Drive answers every query it does end.
C33_PagedListing ==
    /\ [][\A p \in Handlers : PagingStep(p)]_vars
    /\ \A p \in Handlers : (handler[p].pc = "list") ~> (handler[p].pc # "list")

\* C33 witness: a folder of two documents listed in two pages of one; the
\* second query carried the token of the first page, the second page had no
\* token, and both documents are in the list.
C33_Witness ==
    \E p \in Handlers :
        /\ handler[p].pc \in {"call", "done"}
        /\ handler[p].page_token = Some(1)
        /\ handler[p].answer # None
        /\ "files" \in DOMAIN handler[p].answer[1]
        /\ "nextPageToken" \notin DOMAIN handler[p].answer[1]
        /\ Len(handler[p].answer[1].files) = 1
        /\ Len(handler[p].file_list) = 2
        /\ handler[p].file_list[1].id # handler[p].file_list[2].id

====
